---- MODULE Spec2Model ----
(***************************************************************************)
(* A model of delphin.tsdb (src/delphin/tsdb.py): the value codec          *)
(* (escape, unescape, encode, decode, cast, format), the schema parser and *)
(* serializer, and the file access layer (get_path, open, write,           *)
(* write_database) over a small file system.                               *)
(*                                                                         *)
(* Text is a sequence of one-character strings, so that the conversions    *)
(* are computed character by character as the code computes them.          *)
(***************************************************************************)
EXTENDS Integers, Sequences, FiniteSets, TLC

VARIABLES
  px,         \* the conversion being computed: its input and its results
  fs,         \* the database directory: the tx and gz file of each relation
  clock,      \* the time that stamps a file when it is written
  wr,         \* the frame of the write call
  wdb,        \* the frame of the write_database call
  rd,         \* what the reader that has a relation open was given
  hist,       \* how the directory started and how many calls were made
  relations   \* the text of the schema file

vars == <<px, fs, clock, wr, wdb, rd, hist, relations>>

fsvars == <<fs, clock, wr, wdb, rd, hist, relations>>

(***************************************************************************)
(* Bounds of the model.                                                    *)
(***************************************************************************)
\* longest text handed to escape/unescape
MaxText == 3

(***************************************************************************)
(* Text helpers (Python str operations used by the code).                  *)
(***************************************************************************)
BS == "\\"
NL == "\n"
FIELD_DELIMITER == "@"

\* all texts over alphabet A of length at most n
RECURSIVE TextsUpTo(_, _)
TextsUpTo(A, n) ==
  IF n = 0 THEN {<<>>}
  ELSE LET S == TextsUpTo(A, n - 1)
       IN  S \cup {<<c>> \o t : c \in A, t \in {u \in S : Len(u) = n - 1}}

StartsWith(s, p) == Len(s) >= Len(p) /\ SubSeq(s, 1, Len(p)) = p

\* str.replace(old, new): leftmost, non-overlapping occurrences, left to right
RECURSIVE Replace(_, _, _)
Replace(s, old, new) ==
  IF Len(s) < Len(old) THEN s
  ELSE IF StartsWith(s, old)
       THEN new \o Replace(SubSeq(s, Len(old) + 1, Len(s)), old, new)
       ELSE <<Head(s)>> \o Replace(Tail(s), old, new)

(***************************************************************************)
(* Data encoding: escape / unescape.                                       *)
(***************************************************************************)
escape(string) ==
  Replace(Replace(Replace(string, <<BS>>, <<BS, BS>>),
                  <<NL>>, <<BS, "n">>),
          <<FIELD_DELIMITER>>, <<BS, "s">>)

unescape(string) ==
  Replace(Replace(Replace(string, <<BS, BS>>, <<BS>>),
                  <<BS, "n">>, <<NL>>),
          <<BS, "s">>, <<FIELD_DELIMITER>>)

(***************************************************************************)
(* Database schema: Field, _format_schema, _parse_schema.                  *)
(* A Field is [name, datatype, flags, comment]; a schema is the ordered    *)
(* sequence of its tables, each [name, fields] (a Python dict keeps the    *)
(* insertion order).                                                       *)
(***************************************************************************)
\* the absent value (Python's None) where a text is expected
NoText == <<"None">>

SPACE == " "
Whitespace == {SPACE, NL, "\t"}
\* the characters of the model that the regular expression class \w accepts
WordChars ==
  {"a", "b", "c", "d", "e", "f", "g", "h", "i", "j", "k", "l", "m", "n", "o",
   "p", "q", "r", "s", "t", "u", "v", "w", "x", "y", "z", "_",
   "0", "1", "2", "3", "4", "5", "6", "7", "8", "9"}

\* column at which Field.__str__ starts the comment (str.ljust(40))
COMMENT_COLUMN == 40

RECURSIVE Spaces(_)
Spaces(n) == IF n <= 0 THEN <<>> ELSE <<SPACE>> \o Spaces(n - 1)

\* str.ljust(width)
ljust(s, width) == s \o Spaces(width - Len(s))

\* sep.join(parts)
RECURSIVE Join(_, _)
Join(sep, parts) ==
  IF parts = <<>> THEN <<>>
  ELSE IF Len(parts) = 1 THEN parts[1]
  ELSE parts[1] \o sep \o Join(sep, Tail(parts))

\* str.splitlines() for texts whose only line boundary is the newline
RECURSIVE splitlines(_)
splitlines_at(s, n) ==
  IF n = Len(s) THEN <<s>>
  ELSE <<SubSeq(s, 1, n)>> \o splitlines(SubSeq(s, n + 2, Len(s)))

RECURSIVE lstrip(_)
lstrip(s) == IF s # <<>> /\ Head(s) \in Whitespace THEN lstrip(Tail(s)) ELSE s

RECURSIVE rstrip(_)
rstrip(s) ==
  IF s # <<>> /\ s[Len(s)] \in Whitespace
  THEN rstrip(SubSeq(s, 1, Len(s) - 1)) ELSE s

strip(s) == rstrip(lstrip(s))

\* length of the longest prefix of s whose characters all lie in (or, with
\* inside = FALSE, all lie outside) the set C
RECURSIVE SpanLen(_, _, _)
SpanLen(s, C, inside) ==
  IF s # <<>> /\ ((Head(s) \in C) = inside)
  THEN 1 + SpanLen(Tail(s), C, inside) ELSE 0

splitlines(s) ==
  IF s = <<>> THEN <<>> ELSE splitlines_at(s, SpanLen(s, {NL}, FALSE))

\* str.split(): the maximal runs of non-whitespace characters
RECURSIVE split(_)
split_word(t, n) == <<SubSeq(t, 1, n)>> \o split(SubSeq(t, n + 1, Len(t)))

split_stripped(t) ==
  IF t = <<>> THEN <<>> ELSE split_word(t, SpanLen(t, Whitespace, FALSE))

split(s) == split_stripped(lstrip(s))

\* Field.__str__
Field_str_comment(f, s) ==
  IF f.comment # NoText /\ f.comment # <<>>
  THEN ljust(s, COMMENT_COLUMN) \o <<"#", SPACE>> \o f.comment
  ELSE s

Field_str(f) ==
  Field_str_comment(f, <<SPACE, SPACE>>
                         \o Join(<<SPACE>>, <<f.name, f.datatype>> \o f.flags))

\* Field.__eq__: name, datatype and flags; the comment is not compared
Field_eq(f, g) ==
  f.name = g.name /\ f.datatype = g.datatype /\ f.flags = g.flags

_format_schema(schema) ==
  Join(<<NL, NL>>,
       [i \in 1..Len(schema) |->
          schema[i].name \o <<":", NL>>
            \o Join(<<NL>>, [j \in 1..Len(schema[i].fields) |->
                               Field_str(schema[i].fields[j])])])

\* re.match(r'^(?P<table>\w.+):$', line): a word character, at least one
\* more character, and a final colon
table_m(line) ==
  Len(line) >= 3 /\ line[1] \in WordChars /\ line[Len(line)] = ":"

table_group(line) == SubSeq(line, 1, Len(line) - 1)

\* re.match(r'\s*(?P<name>\S+)(\s+(?P<flags>[^#]+))?(\s*#\s*(?P<comment>.*)$)?',
\* line), as the groups of the match: matched is FALSE when there is no match
field_comment_at(l5) ==
  IF l5 # <<>> /\ Head(l5) = "#" THEN lstrip(Tail(l5)) ELSE NoText

field_comment(l4) == field_comment_at(lstrip(l4))

\* l2 is the text after the name, ws its leading whitespace, body the length
\* of the run of non-# characters after it; \s+ gives one whitespace
\* character back to [^#]+ when nothing else is left for it
field_flags(name, l2, ws, body) ==
  IF ws >= 1 /\ body >= 1
  THEN [matched |-> TRUE, name |-> name,
        flags |-> SubSeq(l2, ws + 1, ws + body),
        comment |-> field_comment(SubSeq(l2, ws + body + 1, Len(l2)))]
  ELSE IF ws >= 2
  THEN [matched |-> TRUE, name |-> name, flags |-> <<l2[ws]>>,
        comment |-> field_comment(SubSeq(l2, ws + 1, Len(l2)))]
  ELSE [matched |-> name # <<>>, name |-> name, flags |-> NoText,
        comment |-> field_comment(l2)]

field_after_name(name, l2, ws) ==
  field_flags(name, l2, ws,
              SpanLen(SubSeq(l2, ws + 1, Len(l2)), {"#"}, FALSE))

field_name(l1, nlen) ==
  field_after_name(SubSeq(l1, 1, nlen), SubSeq(l1, nlen + 1, Len(l1)),
                   SpanLen(SubSeq(l1, nlen + 1, Len(l1)), Whitespace, TRUE))

field_lead(l1) == field_name(l1, SpanLen(l1, Whitespace, FALSE))

field_m(line) == field_lead(lstrip(line))

\* the loop of _parse_schema over the remaining lines; tables is the list
\* built so far, whose last entry is the table being filled
RECURSIVE parse_lines(_, _, _)

parse_table(table_name, rest, tables) ==
  IF \E i \in 1..Len(tables) : tables[i].name = table_name
  THEN [error |-> "TSDBSchemaError", schema |-> <<>>]
  ELSE parse_lines(rest,
                   Append(tables, [name |-> table_name, fields |-> <<>>]),
                   table_name)

parse_flags(name, flags, comment, rest, tables, current_table) ==
  IF flags = <<>>
  THEN [error |-> "IndexError", schema |-> <<>>]
  ELSE parse_lines(rest,
                   [tables EXCEPT ![Len(tables)].fields =
                      Append(@, [name |-> name, datatype |-> Head(flags),
                                 flags |-> Tail(flags), comment |-> comment])],
                   current_table)

parse_field(fm, rest, tables, current_table) ==
  IF fm.flags = NoText
  THEN [error |-> "AttributeError", schema |-> <<>>]
  ELSE parse_flags(fm.name, split(fm.flags), fm.comment, rest, tables,
                   current_table)

parse_line(line, fm, rest, tables, current_table) ==
  IF table_m(line) THEN parse_table(table_group(line), rest, tables)
  ELSE IF fm.matched /\ current_table # <<>>
  THEN parse_field(fm, rest, tables, current_table)
  ELSE IF line # <<>>
  THEN [error |-> "TSDBSchemaError", schema |-> <<>>]
  ELSE parse_lines(rest, tables, current_table)

parse_stripped(line, rest, tables, current_table) ==
  parse_line(line, field_m(line), rest, tables, current_table)

parse_lines(lines, tables, current_table) ==
  IF lines = <<>> THEN [error |-> "none", schema |-> tables]
  ELSE parse_stripped(strip(Head(lines)), Tail(lines), tables, current_table)

_parse_schema(s) == parse_lines(splitlines(s), <<>>, <<>>)

(***************************************************************************)
(* Values and their texts.  A value is [t |-> "null"], [t |-> "int", v],   *)
(* [t |-> "str", v] (v a text), [t |-> "float", v] (v counts halves, so    *)
(* that 5 stands for 2.5) or [t |-> "date", v] with                        *)
(* v = [y, m, d, H, M, S, us] (a datetime.datetime).                       *)
(***************************************************************************)
NULL == [t |-> "null"]
IntV(n) == [t |-> "int", v |-> n]
StrV(x) == [t |-> "str", v |-> x]
FloatV(h) == [t |-> "float", v |-> h]
DateV(y, m, d, H, M, S, us) ==
  [t |-> "date",
   v |-> [y |-> y, m |-> m, d |-> d, H |-> H, M |-> M, S |-> S, us |-> us]]

DigitChars == <<"0", "1", "2", "3", "4", "5", "6", "7", "8", "9">>
IsDigit(c) == \E i \in 1..10 : DigitChars[i] = c
DigitVal(c) == (CHOOSE i \in 1..10 : DigitChars[i] = c) - 1

\* the decimal digits of a natural number
RECURSIVE NatToText(_)
NatToText(n) ==
  IF n < 10 THEN <<DigitChars[n + 1]>>
  ELSE NatToText(n \div 10) \o <<DigitChars[(n % 10) + 1]>>

\* str(int)
IntToText(n) == IF n < 0 THEN <<"-">> \o NatToText(0 - n) ELSE NatToText(n)

AllDigits(s) == s # <<>> /\ \A i \in 1..Len(s) : IsDigit(s[i])

RECURSIVE DigitsToNat(_)
DigitsToNat(s) ==
  IF s = <<>> THEN 0
  ELSE 10 * DigitsToNat(SubSeq(s, 1, Len(s) - 1)) + DigitVal(s[Len(s)])

\* the decimal digits of n, zero-padded to two (strftime %H, %M, %S)
TwoDigits(n) == IF n < 10 THEN <<"0">> \o NatToText(n) ELSE NatToText(n)

\* int(text): surrounding whitespace, an optional sign, decimal digits
int_body(body, neg) ==
  IF AllDigits(body)
  THEN [error |-> "none",
        value |-> IntV(IF neg THEN 0 - DigitsToNat(body)
                       ELSE DigitsToNat(body))]
  ELSE [error |-> "ValueError", value |-> NULL]

int_signed(s) ==
  IF s # <<>> /\ Head(s) \in {"-", "+"}
  THEN int_body(Tail(s), Head(s) = "-")
  ELSE int_body(s, FALSE)

int(raw) == int_signed(strip(raw))

\* str(float) of a number of halves: the shortest text that reads back
FloatDigits(a) ==
  NatToText(a \div 2) \o <<".">> \o (IF a % 2 = 1 THEN <<"5">> ELSE <<"0">>)

FloatToText(h) ==
  IF h < 0 THEN <<"-">> \o FloatDigits(0 - h) ELSE FloatDigits(h)

\* the value, in halves, of a fraction part: no digits or zeros give 0, a 5
\* followed by zeros gives 1, any other fraction is outside the model's
\* numbers (-1)
fraction_halves(fp) ==
  IF \A i \in 1..Len(fp) : fp[i] = "0" THEN 0
  ELSE IF fp[1] = "5" /\ \A i \in 2..Len(fp) : fp[i] = "0" THEN 1
  ELSE -1

\* float(text), for the decimal texts whose value is a number of halves:
\* digits with an optional point, a digit on at least one side of it
float_parts(ip, fp, neg) ==
  IF /\ ip # <<>> \/ fp # <<>>
     /\ \A i \in 1..Len(ip) : IsDigit(ip[i])
     /\ fraction_halves(fp) >= 0
  THEN [error |-> "none",
        value |-> FloatV((IF neg THEN -1 ELSE 1)
                         * (2 * (IF ip = <<>> THEN 0 ELSE DigitsToNat(ip))
                            + fraction_halves(fp)))]
  ELSE [error |-> "ValueError", value |-> NULL]

float_point(body, n, neg) ==
  float_parts(SubSeq(body, 1, n),
              IF n = Len(body) THEN <<>> ELSE SubSeq(body, n + 2, Len(body)),
              neg)

float_body(body, neg) == float_point(body, SpanLen(body, {"."}, FALSE), neg)

float_signed(s) ==
  IF s # <<>> /\ Head(s) \in {"-", "+"}
  THEN float_body(Tail(s), Head(s) = "-")
  ELSE float_body(s, FALSE)

float(raw) == float_signed(strip(raw))

\* the month names of _MONTHS, by month number
_MONTHS == << <<"j", "a", "n">>, <<"f", "e", "b">>, <<"m", "a", "r">>,
              <<"a", "p", "r">>, <<"m", "a", "y">>, <<"j", "u", "n">>,
              <<"j", "u", "l">>, <<"a", "u", "g">>, <<"s", "e", "p">>,
              <<"o", "c", "t">>, <<"n", "o", "v">>, <<"d", "e", "c">> >>

(***************************************************************************)
(* Dates: format's date branch, _parse_datetime and _date_fix.             *)
(***************************************************************************)
Min2(a, b) == IF a > b THEN b ELSE a

\* number of leading decimal digits of s, at most max
LeadDigits(s, max) ==
  Min2(SpanLen(s, {"0", "1", "2", "3", "4", "5", "6", "7", "8", "9"}, TRUE),
       max)

Drop(s, n) == SubSeq(s, n + 1, Len(s))
Take(s, n) == SubSeq(s, 1, n)

\* (?:\s*\(?(?P<H>[0-9]{2}):(?P<M>[0-9]{2})(?::(?P<S>[0-9]{2}))?\)?)? at the
\* start of s: the groups, NoText for a group that did not take part
time_ok(b) ==
  /\ Len(b) >= 5 /\ LeadDigits(b, 2) = 2 /\ b[3] = ":"
  /\ LeadDigits(Drop(b, 3), 2) = 2

seconds_ok(c) == Len(c) >= 3 /\ c[1] = ":" /\ LeadDigits(Tail(c), 2) = 2

time_groups_at(b) ==
  IF time_ok(b)
  THEN [H |-> Take(b, 2), M |-> SubSeq(b, 4, 5),
        S |-> IF seconds_ok(Drop(b, 5)) THEN SubSeq(b, 7, 8) ELSE NoText]
  ELSE [H |-> NoText, M |-> NoText, S |-> NoText]

skip_paren(a) == IF a # <<>> /\ Head(a) = "(" THEN Tail(a) ELSE a

time_groups(s) ==
  time_groups_at(skip_paren(Drop(s, SpanLen(s, Whitespace, TRUE))))

\* (?P<m>[0-9]{1,2}|\w{3}): n digits, or three word characters
month_ok(s, n) ==
  /\ Len(s) >= n
  /\ IF n = 3 THEN \A i \in 1..3 : s[i] \in WordChars
     ELSE LeadDigits(s, n) = n

\* the length the month alternation takes when nothing need follow it: two
\* digits, else one digit, else three word characters; 0 when none
month_len(r) ==
  IF month_ok(r, 2) THEN 2
  ELSE IF month_ok(r, 1) THEN 1
  ELSE IF month_ok(r, 3) THEN 3
  ELSE 0

date_groups(y, m, d, tg) ==
  [matched |-> TRUE, y |-> y, m |-> m, d |-> d,
   H |-> tg.H, M |-> tg.M, S |-> tg.S]

ymd_time(y, m, r2, dl) ==
  date_groups(y, m, IF dl > 0 THEN SubSeq(r2, 2, dl + 1) ELSE NoText,
              time_groups(IF dl > 0 THEN Drop(r2, dl + 1) ELSE r2))

ymd_day(y, m, r2) ==
  ymd_time(y, m, r2,
           IF r2 # <<>> /\ Head(r2) = "-" THEN LeadDigits(Tail(r2), 2) ELSE 0)

ymd_month(y, r, ml) == ymd_day(y, Take(r, ml), Drop(r, ml))

\* the YYYY-MM-DD pattern of _parse_datetime
date_match_ymd(s) ==
  IF /\ Len(s) >= 5 /\ LeadDigits(s, 4) = 4 /\ s[5] = "-"
     /\ month_len(Drop(s, 5)) > 0
  THEN ymd_month(Take(s, 4), Drop(s, 5), month_len(Drop(s, 5)))
  ELSE [matched |-> FALSE]

\* the DD-MM-YY pattern of _parse_datetime: the day group takes two digits,
\* one digit or nothing, the month two digits, one digit or three word
\* characters, tried in this order (<<day length, month length>>); the first
\* choice followed by '-' and a year of at least two digits is the match
DmyChoices ==
  << <<2, 2>>, <<2, 1>>, <<2, 3>>, <<1, 2>>, <<1, 1>>, <<1, 3>>,
     <<0, 2>>, <<0, 1>>, <<0, 3>> >>

dmy_rest_ok(r, ml) ==
  /\ month_ok(r, ml)
  /\ Len(r) > ml /\ r[ml + 1] = "-"
  /\ LeadDigits(Drop(r, ml + 1), 2) = 2

dmy_ok(s, dl, ml) ==
  /\ dl > 0 => (LeadDigits(s, dl) = dl /\ Len(s) > dl /\ s[dl + 1] = "-")
  /\ dmy_rest_ok(IF dl > 0 THEN Drop(s, dl + 1) ELSE s, ml)

dmy_time(d, m, yr, yl) ==
  date_groups(Take(yr, yl), m, d, time_groups(Drop(yr, yl)))

dmy_year(d, m, yr) ==
  dmy_time(d, m, yr, IF LeadDigits(yr, 4) = 4 THEN 4 ELSE 2)

dmy_month(d, r, ml) == dmy_year(d, Take(r, ml), Drop(r, ml + 1))

dmy_day(s, dl, ml) ==
  dmy_month(IF dl > 0 THEN Take(s, dl) ELSE NoText,
            IF dl > 0 THEN Drop(s, dl + 1) ELSE s, ml)

dmy_pick(s, ks) ==
  IF ks = {} THEN [matched |-> FALSE]
  ELSE dmy_day(s, DmyChoices[CHOOSE k \in ks : \A j \in ks : k <= j][1],
               DmyChoices[CHOOSE k \in ks : \A j \in ks : k <= j][2])

date_match_dmy(s) ==
  dmy_pick(s, {k \in 1..9 : dmy_ok(s, DmyChoices[k][1], DmyChoices[k][2])})

Or(x, default) == IF x = NoText THEN default ELSE x

\* _date_fix: the groups as texts of numbers; m = <<>> marks the KeyError of
\* a three-character month that is not in _MONTHS
_date_fix(mo) ==
  [y |-> IF Len(mo.y) = 2
         THEN (IF DigitsToNat(mo.y) >= 93 THEN <<"1", "9">>
               ELSE <<"2", "0">>) \o mo.y
         ELSE mo.y,
   m |-> IF Len(mo.m) = 3
         THEN IF \E i \in 1..12 : _MONTHS[i] = mo.m
              THEN NatToText(CHOOSE i \in 1..12 : _MONTHS[i] = mo.m)
              ELSE <<>>
         ELSE mo.m,
   d |-> Or(mo.d, <<"0", "1">>),
   H |-> Or(mo.H, <<"0", "0">>), M |-> Or(mo.M, <<"0", "0">>),
   S |-> Or(mo.S, <<"0", "0">>)]

DaysIn(y, m) ==
  IF m \in {4, 6, 9, 11} THEN 30
  ELSE IF m = 2
       THEN (IF y % 4 = 0 /\ (y % 100 # 0 \/ y % 400 = 0) THEN 29 ELSE 28)
       ELSE 31

strptime_values(y, m, d, H, M, S) ==
  IF /\ y >= 1 /\ m \in 1..12 /\ d >= 1 /\ d <= DaysIn(y, m)
     /\ H <= 23 /\ M <= 59 /\ S <= 59
  THEN [error |-> "none", value |-> DateV(y, m, d, H, M, S, 0)]
  ELSE [error |-> "ValueError", value |-> NULL]

\* datetime.strptime(s, '%Y-%m-%d %H:%M:%S') of the text _date_fix builds
strptime(f) ==
  strptime_values(DigitsToNat(f.y), DigitsToNat(f.m), DigitsToNat(f.d),
                  DigitsToNat(f.H), DigitsToNat(f.M), DigitsToNat(f.S))

skip_colon(s) == IF s # <<>> /\ Head(s) = ":" THEN Tail(s) ELSE s

now_at(a) ==
  StartsWith(a, <<"t", "o", "d", "a", "y">>) \/ StartsWith(a, <<"n", "o", "w">>)

IsNowKeyword(s) == now_at(skip_colon(s))

parse_fixed(f) ==
  IF f.m = <<>> THEN [error |-> "KeyError", value |-> NULL] ELSE strptime(f)

parse_matched(m) ==
  IF ~m.matched THEN [error |-> "ValueError", value |-> NULL]
  ELSE parse_fixed(_date_fix(m))

first_match(m1, s) == IF m1.matched THEN m1 ELSE date_match_dmy(s)

_parse_datetime(s) ==
  IF IsNowKeyword(s)
  THEN [error |-> "none", value |-> [t |-> "date", v |-> "now"]]
  ELSE parse_matched(first_match(date_match_ymd(s), s))

\* format's date branch: '{day}-{month name}-%Y', with ' %H:%M:%S' when the
\* time of day is not midnight
format_date(v) ==
  NatToText(v.d) \o <<"-">> \o _MONTHS[v.m] \o <<"-">> \o NatToText(v.y)
    \o (IF <<v.H, v.M, v.S>> # <<0, 0, 0>>
        THEN <<SPACE>> \o TwoDigits(v.H) \o <<":">> \o TwoDigits(v.M)
               \o <<":">> \o TwoDigits(v.S)
        ELSE <<>>)

(***************************************************************************)
(* Fields, cast, format, encode and decode.                                *)
(***************************************************************************)
T_integer == <<":", "i", "n", "t", "e", "g", "e", "r">>
T_string  == <<":", "s", "t", "r", "i", "n", "g">>
T_float   == <<":", "f", "l", "o", "a", "t">>
T_date    == <<":", "d", "a", "t", "e">>
T_key     == <<":", "k", "e", "y">>

N_i_wf         == <<"i", "-", "w", "f">>
N_i_difficulty == <<"i", "-", "d", "i", "f", "f", "i", "c", "u", "l", "t", "y">>
N_polarity     == <<"p", "o", "l", "a", "r", "i", "t", "y">>

\* Field.default: TSDB_CODED_ATTRIBUTES.get(name, '-1' if integer else '')
Field_default(f) ==
  IF f.name \in {N_i_wf, N_i_difficulty} THEN <<"1">>
  ELSE IF f.name = N_polarity THEN <<"-", "1">>
  ELSE IF f.datatype = T_integer THEN <<"-", "1">>
  ELSE <<>>

\* Field(name, datatype) with no flags and no comment
Field(name, datatype) ==
  [name |-> name, datatype |-> datatype, flags |-> <<>>, comment |-> NoText]

\* the decimal digits of n, zero-padded to width w
RECURSIVE ZeroPad(_, _)
ZeroPad(t, w) == IF Len(t) >= w THEN t ELSE ZeroPad(<<"0">> \o t, w)

\* str(value)
str(value) ==
  CASE value.t = "int"   -> IntToText(value.v)
    [] value.t = "str"   -> value.v
    [] value.t = "float" -> FloatToText(value.v)
    [] value.t = "null"  -> <<"N", "o", "n", "e">>
    [] value.t = "date"  ->
         ZeroPad(NatToText(value.v.y), 4) \o <<"-">> \o TwoDigits(value.v.m)
           \o <<"-">> \o TwoDigits(value.v.d) \o <<SPACE>>
           \o TwoDigits(value.v.H) \o <<":">> \o TwoDigits(value.v.M)
           \o <<":">> \o TwoDigits(value.v.S)
           \o (IF value.v.us # 0
               THEN <<".">> \o ZeroPad(NatToText(value.v.us), 6) ELSE <<>>)

\* format(datatype, value, default); default = NoText stands for None
format(datatype, value, default) ==
  IF value = NULL
  THEN IF default = NoText
       THEN (IF datatype = T_integer THEN <<"-", "1">> ELSE <<>>)
       ELSE default
  ELSE IF datatype = T_date /\ value.t = "date" THEN format_date(value.v)
  ELSE str(value)

\* cast(datatype, raw_value); raw_value is NULL or a text value
cast(datatype, raw_value) ==
  IF raw_value = NULL \/ raw_value.v = <<>>
  THEN [error |-> "none", value |-> NULL]
  ELSE IF datatype = T_integer THEN int(raw_value.v)
  ELSE IF datatype = T_float THEN float(raw_value.v)
  ELSE IF datatype = T_date THEN _parse_datetime(raw_value.v)
  ELSE IF datatype = T_string THEN [error |-> "none", value |-> raw_value]
  ELSE [error |-> "TSDBError", value |-> NULL]

\* str.split(sep) for a one-character separator
RECURSIVE SplitOn(_, _)
SplitAt(s, sep, n) ==
  IF n = Len(s) THEN <<s>>
  ELSE <<SubSeq(s, 1, n)>> \o SplitOn(SubSeq(s, n + 2, Len(s)), sep)

SplitOn(s, sep) == SplitAt(s, sep, SpanLen(s, {sep}, FALSE))

\* str.rstrip('\n')
RECURSIVE rstrip_newlines(_)
rstrip_newlines(s) ==
  IF s # <<>> /\ s[Len(s)] = NL
  THEN rstrip_newlines(Take(s, Len(s) - 1)) ELSE s

encode_join(raw_values) ==
  [error |-> "none",
   text |-> Join(<<FIELD_DELIMITER>>,
                 [i \in 1..Len(raw_values) |-> escape(raw_values[i])])]

\* encode(values, fields); fields = <<>> stands for no fields (None or empty)
encode(values, fields) ==
  IF fields # <<>> /\ Len(values) # Len(fields)
  THEN [error |-> "TSDBError", text |-> <<>>]
  ELSE encode_join(IF fields # <<>>
                   THEN [i \in 1..Len(fields) |->
                           format(fields[i].datatype, values[i],
                                  Field_default(fields[i]))]
                   ELSE [i \in 1..Len(values) |->
                           IF values[i] = NULL THEN <<>> ELSE str(values[i])])

decode_result(cs, bad) ==
  IF bad # {}
  THEN [error |-> cs[CHOOSE i \in bad : \A j \in bad : i <= j].error,
        record |-> <<>>]
  ELSE [error |-> "none", record |-> [i \in 1..Len(cs) |-> cs[i].value]]

decode_cast(cs) == decode_result(cs, {i \in 1..Len(cs) : cs[i].error # "none"})

decode_raw(raw_values, fields) ==
  IF fields # <<>>
  THEN IF Len(raw_values) # Len(fields)
       THEN [error |-> "TSDBError", record |-> <<>>]
       ELSE decode_cast([i \in 1..Len(fields) |->
                           cast(fields[i].datatype, raw_values[i])])
  ELSE [error |-> "none", record |-> raw_values]

decode_cols(cols, fields) ==
  decode_raw([i \in 1..Len(cols) |->
                IF cols[i] # <<>> THEN StrV(unescape(cols[i])) ELSE NULL],
             fields)

\* decode(line, fields); fields = <<>> stands for no fields (None or empty)
decode(line, fields) ==
  decode_cols(SplitOn(rstrip_newlines(line), FIELD_DELIMITER), fields)

(***************************************************************************)
(* The file access layer.  A database directory holds, for every relation  *)
(* of its schema, a plain file (tx) and a compressed file (gz), each       *)
(* absent or present.  A file is its lines, its modification time and the  *)
(* form of its bytes: "none" for a file of zero bytes, "plain" for text,   *)
(* "gzip" for a gzip stream (which has a header even with no lines).       *)
(***************************************************************************)
N_item  == <<"i", "t", "e", "m">>
N_parse == <<"p", "a", "r", "s", "e">>

\* the schema of the database: db.schema
DbSchema ==
  << [name |-> N_item,
      fields |-> << Field(<<"i", "-", "i", "d">>, T_integer),
                    Field(<<"i", "-", "i", "n", "p", "u", "t">>, T_string) >>],
     [name |-> N_parse,
      fields |-> << Field(<<"p", "-", "i", "d">>, T_integer) >>] >>

Names == {DbSchema[i].name : i \in 1..Len(DbSchema)}

\* schema[name]
SchemaFields(schema, name) ==
  schema[CHOOSE i \in 1..Len(schema) : schema[i].name = name].fields

Range(seq) == {seq[i] : i \in 1..Len(seq)}

NoFile == [exists |-> FALSE, lines |-> <<>>, mtime |-> 0, fmt |-> "none"]

FileOf(lines, mtime, fmt) ==
  [exists |-> TRUE, lines |-> lines, mtime |-> mtime, fmt |-> fmt]

\* Path.is_file(), Path.exists(): the model has no directories at these paths
is_file(f) == f.exists

\* Path.unlink()
unlink(f) == NoFile

\* a comparison that also prefers a compressed file of the same age
newer_or_equal(gz, tx) == gz.mtime >= tx.mtime

\* gz_path.stat().st_mtime > tx_path.stat().st_mtime
newer(gz, tx) == gz.mtime > tx.mtime

\* _get_paths: the paths are the tx and gz files of the table; the result is
\* use_gz
_get_paths(tbl) ==
  is_file(tbl.gz) /\ (~tbl.tx.exists \/ newer(tbl.gz, tbl.tx))

\* get_path: the file to read, or "TSDBError" when neither file exists
get_path_of(tbl, tbl_path) ==
  IF ~is_file(tbl[tbl_path]) THEN "TSDBError" ELSE tbl_path

get_path(tbl) == get_path_of(tbl, IF _get_paths(tbl) THEN "gz" ELSE "tx")

\* open: the path that is opened and the lines a reader gets from it
open_path(tbl, path) ==
  IF path = "TSDBError" THEN [path |-> path, lines |-> <<>>]
  ELSE [path |-> path, lines |-> tbl[path].lines]

open(tbl) == open_path(tbl, get_path(tbl))

\* Relation.__iter__: decode(line) of every line of the opened file
Relation_lines(lines) ==
  [error |-> "none",
   records |-> [i \in 1..Len(lines) |->
                  decode(lines[i] \o <<NL>>, <<>>).record]]

Relation_opened(f) ==
  IF f.path = "TSDBError" THEN [error |-> "TSDBError", records |-> <<>>]
  ELSE Relation_lines(f.lines)

Relation_iter(tbl) == Relation_opened(open(tbl))

(***************************************************************************)
(* write(dir, name, records, fields, append, gzip).  wr is the frame of    *)
(* the call: its arguments, its locals and its position.  The positions    *)
(* are the points between the call's effects on the directory: records     *)
(* are serialized to the temporary file ("serialize"), the destination is  *)
(* opened, which creates or truncates it ("open"), the temporary file is   *)
(* copied into it and it is closed ("copy"), the other file of the table   *)
(* is deleted ("cleanup").  source is "records" for a call with a sequence *)
(* of records and "relation" for the lazy iterator over the relation's     *)
(* own file that write_database passes.  prior, dest_existed, old,         *)
(* old_read and new record the directory as the call found it and the      *)
(* content the call is to leave.                                           *)
(***************************************************************************)
IdleWrite ==
  [pc |-> "idle", name |-> <<>>, source |-> "records", records |-> <<>>,
   append |-> FALSE, gzip_arg |-> "None", gzip |-> FALSE,
   dest |-> "tx", other |-> "gz", mode |-> "wb", append_nonempty |-> FALSE,
   tmp |-> <<>>, error |-> "none",
   prior |-> "neither", dest_existed |-> FALSE, old |-> <<>>,
   old_read |-> <<>>, new |-> <<>>, before |-> <<>>]

\* a choice of paths that takes the destination for the other file too
dest_other_same(gzip) == IF gzip THEN <<"gz", "gz">> ELSE <<"tx", "tx">>

\* dest, other = (gz_path, tx_path) if gzip else (tx_path, gz_path)
dest_other(gzip) == IF gzip THEN <<"gz", "tx">> ELSE <<"tx", "gz">>

PriorOf(tbl) ==
  IF tbl.tx.exists
  THEN (IF tbl.gz.exists THEN "both" ELSE "tx")
  ELSE (IF tbl.gz.exists THEN "gz" ELSE "neither")

write_paths(name, source, records, append, gzip_arg, tbl, gzip, dest, other) ==
  [pc |-> "serialize", name |-> name, source |-> source, records |-> records,
   append |-> append, gzip_arg |-> gzip_arg, gzip |-> gzip,
   dest |-> dest, other |-> other,
   mode |-> IF append THEN "ab" ELSE "wb",
   append_nonempty |-> append /\ is_file(tbl[dest]) /\ tbl[dest].fmt # "none",
   tmp |-> <<>>, error |-> "none",
   prior |-> PriorOf(tbl), dest_existed |-> tbl[dest].exists,
   old |-> tbl[dest].lines, old_read |-> open(tbl).lines,
   new |-> tbl[dest].lines, before |-> tbl]

write_gzip(name, source, records, append, gzip_arg, tbl, gzip) ==
  write_paths(name, source, records, append, gzip_arg, tbl, gzip,
              dest_other(gzip)[1], dest_other(gzip)[2])

\* the head of write, up to the creation of the temporary file
write_call(name, source, records, append, gzip_arg, tbl) ==
  write_gzip(name, source, records, append, gzip_arg, tbl,
             IF gzip_arg = "None" THEN _get_paths(tbl) ELSE gzip_arg = "True")

\* the records the loop of write gets from its iterable
records_of(w, tbl) ==
  IF w.source = "relation" THEN Relation_iter(tbl)
  ELSE [error |-> "none", records |-> w.records]

\* the loop of write: encode(record, fields) of every record, one line each
serialize_lines(encoded) ==
  IF \E i \in 1..Len(encoded) : encoded[i].error # "none"
  THEN [error |-> "TSDBError", lines |-> <<>>]
  ELSE [error |-> "none",
        lines |-> [i \in 1..Len(encoded) |-> encoded[i].text]]

serialize_records(it, fields) ==
  IF it.error # "none" THEN [error |-> it.error, lines |-> <<>>]
  ELSE serialize_lines([i \in 1..Len(it.records) |->
                          encode(it.records[i], fields)])

serialize(w, tbl, fields) == serialize_records(records_of(w, tbl), fields)

\* a loop that notes the error of encode and goes on to the copy with the
\* lines it has
serialized_unchecked(w, tbl, s) ==
  [w EXCEPT !.pc = "open", !.error = s.error, !.tmp = s.lines,
            !.gzip = w.gzip /\ (s.lines # <<>> \/ w.append_nonempty),
            !.new = s.lines]

\* the frame after the loop: gzip = gzip and (f_tmp.tell() != 0 or
\* append_nonempty)
serialized(w, tbl, s) ==
  IF s.error # "none"
  THEN [w EXCEPT !.pc = "failed", !.error = s.error]
  ELSE [w EXCEPT !.pc = "open", !.tmp = s.lines,
                 !.gzip = w.gzip /\ (s.lines # <<>> \/ w.append_nonempty),
                 !.new = IF w.append /\ tbl[w.dest].exists
                         THEN tbl[w.dest].lines \o s.lines
                         ELSE s.lines]

\* gzopen(dest, mode) and dest.open(mode): 'wb' creates or truncates the
\* file, 'ab' creates it when it does not exist
open_dest(f, mode, now) ==
  IF mode = "wb" \/ ~f.exists THEN FileOf(<<>>, now, "none") ELSE f

\* shutil.copyfileobj(f_tmp, f_out) and the close of f_out: the lines of the
\* temporary file are added; a gzip stream is written even for no lines
copy_close(f, tmp, gzip, now) ==
  IF gzip THEN FileOf(f.lines \o tmp, now, "gzip")
  ELSE IF tmp = <<>> THEN f
  ELSE FileOf(f.lines \o tmp, now, "plain")

\* a cleanup that leaves the other file in place
cleanup_other_skip(tbl, other) == tbl

\* if other.is_file(): other.unlink()
cleanup_other(tbl, other) ==
  IF is_file(tbl[other]) THEN [tbl EXCEPT ![other] = unlink(tbl[other])]
  ELSE tbl

(***************************************************************************)
(* write_database(db, path, names, schema=None, gzip) with path the        *)
(* directory of db itself.  wdb is the frame of the call: names, the       *)
(* number i of the next relation to write, the relations still to delete,  *)
(* and before, the records of every relation as the call found them.       *)
(***************************************************************************)
IdleWdb ==
  [pc |-> "idle", names |-> <<>>, i |-> 1, gzip_arg |-> "None",
   todelete |-> {}, before |-> <<>>]

\* a sequencing that lets the deletions start before the loop over names
writes_not_running(w, d) == w.pc \in {"idle", "done"}

\* the loop over names has written every relation
writes_completed(w, d) == d.i > Len(d.names) /\ w.pc = "done"

\* what the reader got from open(dir, name); NoRead when no reader has the
\* relation open
NoRead == [name |-> <<>>, path |-> "none", lines |-> <<>>]

\* the values of the file-system variables while a conversion is computed
FsIdle ==
  /\ fs = [n \in Names |-> [tx |-> NoFile, gz |-> NoFile]]
  /\ clock = 0
  /\ wr = IdleWrite
  /\ wdb = IdleWdb
  /\ rd = NoRead
  /\ hist = [init_one |-> TRUE, calls |-> 0]
  /\ relations = <<>>

(***************************************************************************)
(* The directory as a state machine: one writer, which runs write and      *)
(* write_database calls one after the other, step by step; a reader that   *)
(* opens a relation between any two steps; and the clock that stamps the   *)
(* files.                                                                   *)
(***************************************************************************)
\* number of write and write_database calls
MaxCalls == 1
\* latest time of the clock
MaxClock == 2

ItemLinesTx == << <<"1", "@", "a">> >>
\* a line whose i-id column is empty and whose i-input column is the text
\* backslash, backslash, n
ItemLinesGz == << <<"@", BS, BS, "n">> >>
ParseLines  == << <<"2">> >>

\* the files a relation starts with: item has none, one or both of its
\* files, the compressed one older than, as old as or newer than the plain
\* one; parse has at most one file
InitTables(name) ==
  IF name = N_item
  THEN {[tx |-> t, gz |-> g] :
          t \in {NoFile} \cup {FileOf(ItemLinesTx, m, "plain") : m \in 0..1},
          g \in {NoFile} \cup {FileOf(ItemLinesGz, m, "gzip") : m \in 0..1}}
  ELSE {[tx |-> NoFile, gz |-> NoFile],
        [tx |-> FileOf(ParseLines, 0, "plain"), gz |-> NoFile],
        [tx |-> NoFile, gz |-> FileOf(ParseLines, 0, "gzip")]}

\* the records a caller passes to write: none, one record, and for item a
\* record with too few columns
RecordsArg(name) ==
  IF name = N_item
  THEN {<<>>, << <<IntV(3), StrV(<<"c">>)>> >>, << <<IntV(3)>> >>}
  ELSE {<<>>, << <<IntV(4)>> >>}

GzipArg == {"True", "False", "None"}

NamesArg == {<<N_item>>, <<N_parse>>, <<N_item, N_parse>>}

Init ==
  /\ px = "idle"
  /\ fs \in {d \in [Names -> UNION {InitTables(n) : n \in Names}] :
               \A n \in Names : d[n] \in InitTables(n)}
  /\ clock = 1
  /\ wr = IdleWrite
  /\ wdb = IdleWdb
  /\ rd = NoRead
  /\ hist = [init_one |-> \A n \in Names : ~(fs[n].tx.exists /\ fs[n].gz.exists),
             calls |-> 0]
  /\ relations = _format_schema(DbSchema)

\* what was read is compared with the directory it was read from: the clock
\* and the writer step when the reader has left
NoReader == rd = NoRead

WriterIdle ==
  wr.pc \in {"idle", "done", "failed"} /\ wdb.pc \in {"idle", "done", "failed"}

Tick ==
  /\ NoReader /\ clock < MaxClock
  /\ clock' = clock + 1
  /\ UNCHANGED <<px, rd, fs, wr, wdb, hist, relations>>

\* a reader enters the with block of open(dir, name) and reads the file
Open ==
  \E name \in Names :
    /\ rd = NoRead
    /\ rd' = [name |-> name, path |-> open(fs[name]).path,
              lines |-> open(fs[name]).lines]
    /\ UNCHANGED <<px, fs, clock, wr, wdb, hist, relations>>

\* the reader leaves the with block
Close ==
  /\ rd # NoRead
  /\ rd' = NoRead
  /\ UNCHANGED <<px, fs, clock, wr, wdb, hist, relations>>

\* write(dir, name, records, schema[name], append, gzip) is called
Write ==
  \E name \in Names, append \in BOOLEAN, gzip \in GzipArg :
    \E records \in RecordsArg(name) :
      /\ NoReader /\ WriterIdle /\ hist.calls < MaxCalls
      /\ wr' = write_call(name, "records", records, append, gzip, fs[name])
      /\ wdb' = IdleWdb
      /\ hist' = [hist EXCEPT !.calls = @ + 1]
      /\ UNCHANGED <<px, rd, fs, clock, relations>>

W_serialize ==
  /\ NoReader /\ wr.pc = "serialize"
  /\ wr' = serialized(wr, fs[wr.name],
                      serialize(wr, fs[wr.name],
                                SchemaFields(DbSchema, wr.name)))
  /\ UNCHANGED <<px, rd, fs, clock, wdb, hist, relations>>

W_open ==
  /\ NoReader /\ wr.pc = "open"
  /\ fs' = [fs EXCEPT ![wr.name][wr.dest] = open_dest(@, wr.mode, clock)]
  /\ wr' = [wr EXCEPT !.pc = "copy"]
  /\ UNCHANGED <<px, rd, clock, wdb, hist, relations>>

W_copy ==
  /\ NoReader /\ wr.pc = "copy"
  /\ fs' = [fs EXCEPT ![wr.name][wr.dest] =
                        copy_close(@, wr.tmp, wr.gzip, clock)]
  /\ wr' = [wr EXCEPT !.pc = "cleanup"]
  /\ UNCHANGED <<px, rd, clock, wdb, hist, relations>>

W_cleanup ==
  /\ NoReader /\ wr.pc = "cleanup"
  /\ fs' = [fs EXCEPT ![wr.name] = cleanup_other(@, wr.other)]
  /\ wr' = [wr EXCEPT !.pc = "done"]
  /\ UNCHANGED <<px, rd, clock, wdb, hist, relations>>

\* write_database(db, db.path, names, None, gzip) is called: the schema
\* file is written
WD_call ==
  \E names \in NamesArg, gzip \in GzipArg :
    /\ NoReader /\ WriterIdle /\ hist.calls < MaxCalls
    /\ relations' = _format_schema(DbSchema)
    /\ wdb' = [pc |-> "write", names |-> names, i |-> 1, gzip_arg |-> gzip,
               todelete |-> Names \ Range(names),
               before |-> [n \in Names |-> Relation_iter(fs[n])]]
    /\ wr' = IdleWrite
    /\ hist' = [hist EXCEPT !.calls = @ + 1]
    /\ UNCHANGED <<px, rd, fs, clock>>

\* the loop over names: write(path, name, iter(db[name]), fields, gzip=gzip)
WD_write ==
  /\ NoReader /\ wdb.pc = "write" /\ wdb.i <= Len(wdb.names)
  /\ wr.pc \in {"idle", "done"}
  /\ wr' = write_call(wdb.names[wdb.i], "relation", <<>>, FALSE,
                      wdb.gzip_arg, fs[wdb.names[wdb.i]])
  /\ wdb' = [wdb EXCEPT !.i = @ + 1]
  /\ UNCHANGED <<px, rd, fs, clock, hist, relations>>

\* the exception of a write leaves write_database
WD_fail ==
  /\ NoReader /\ wdb.pc = "write" /\ wr.pc = "failed"
  /\ wdb' = [wdb EXCEPT !.pc = "failed"]
  /\ UNCHANGED <<px, rd, fs, clock, wr, hist, relations>>

\* the loop over set(schema).difference(names): both files of a relation
\* are deleted
WD_delete ==
  \E name \in wdb.todelete :
    /\ NoReader /\ wdb.pc = "write" /\ writes_completed(wr, wdb)
    /\ fs' = [fs EXCEPT ![name] =
                [tx |-> IF is_file(@.tx) THEN unlink(@.tx) ELSE @.tx,
                 gz |-> IF is_file(@.gz) THEN unlink(@.gz) ELSE @.gz]]
    /\ wdb' = [wdb EXCEPT !.todelete = @ \ {name}]
    /\ UNCHANGED <<px, rd, clock, wr, hist, relations>>

WD_return ==
  /\ NoReader /\ wdb.pc = "write"
  /\ writes_completed(wr, wdb) /\ wdb.todelete = {}
  /\ wdb' = [wdb EXCEPT !.pc = "done"]
  /\ UNCHANGED <<px, rd, fs, clock, wr, hist, relations>>

Next ==
  \/ Tick \/ Open \/ Close
  \/ Write \/ W_serialize \/ W_open \/ W_copy \/ W_cleanup
  \/ WD_call \/ WD_write \/ WD_fail \/ WD_delete \/ WD_return

Spec == Init /\ [][Next]_vars

(***************************************************************************)
(* The claims about the file access layer.                                 *)
(***************************************************************************)
Both(tbl) == tbl.tx.exists /\ tbl.gz.exists

\* a write call has started and has not yet returned or failed
Writing == wr.pc \in {"serialize", "open", "copy", "cleanup"}

\* C1: a reader that opens the destination file of a write at any point of
\* the write gets the complete old content of the file or the complete new
\* content.
C1_ReaderSeesOldOrNew ==
  (rd.path # "none" /\ Writing /\ rd.name = wr.name /\ rd.path = wr.dest)
    => \/ rd.lines = wr.new
       \/ wr.dest_existed /\ rd.lines = wr.old

\* C1: the plain file of a relation held a line, an overwriting write of one
\* record has opened it, and the reader got a file with no line at all
C1_FailingInput ==
  /\ wr.pc = "copy" /\ wr.mode = "wb" /\ wr.dest = "tx"
  /\ wr.dest_existed /\ wr.old # <<>> /\ wr.tmp # <<>>
  /\ rd.name = wr.name /\ rd.path = wr.dest /\ rd.lines = <<>>

\* C2: after a write call that returns without error, whatever files the
\* relation had before and whatever gzip and append were, exactly one of
\* the plain file and the compressed file of the relation exists.
C2_ExactlyOneFile ==
  wr.pc = "done" => fs[wr.name].tx.exists # fs[wr.name].gz.exists

\* C2: a write has returned for a relation that had both files before it
C2_WroteOverBoth == wr.pc = "done" /\ wr.prior = "both"

\* C3, as stated: from a directory with at most one file per relation, in no
\* state do the plain and the compressed file of a relation both exist.
C3_NeverBoth == hist.init_one => \A n \in Names : ~Both(fs[n])

\* C3, amended: from a directory with at most one file per relation, the
\* plain and the compressed file of a relation both exist only while a write
\* to that relation is between opening its destination file and deleting
\* the other file.
C3_BothOnlyInsideWrite ==
  hist.init_one =>
    \A n \in Names :
      Both(fs[n]) => wr.name = n /\ wr.pc \in {"copy", "cleanup"}

\* C3: a write to a relation that had one file has written the other one and
\* has not yet deleted the first
C3_BothInsideWrite ==
  /\ hist.init_one /\ wr.pc = "cleanup"
  /\ Both(fs[wr.name]) /\ fs[wr.name][wr.dest].lines = wr.new

\* C4: after a write call with no records, even with gzip=True, the
\* relation has no compressed output file.
C4_EmptyNeverCompressed ==
  (wr.pc = "done" /\ wr.tmp = <<>>) => ~fs[wr.name].gz.exists

\* C4: write(dir, name, [], fields, gzip=True) has returned for a relation
\* that had a plain file only: the plain file is gone and a file of zero
\* bytes is at the compressed path
C4_FailingInput ==
  /\ wr.pc = "done" /\ wr.source = "records" /\ wr.records = <<>>
  /\ ~wr.append /\ wr.gzip_arg = "True" /\ wr.prior = "tx"
  /\ fs[wr.name].gz.exists /\ fs[wr.name].gz.fmt = "none"
  /\ ~fs[wr.name].tx.exists

\* the number of files of a relation
FileCount(tbl) ==
  (IF tbl.tx.exists THEN 1 ELSE 0) + (IF tbl.gz.exists THEN 1 ELSE 0)

\* C5, first part: in write_database a file of a relation that is not in
\* names is deleted only when the write of every relation in names has
\* completed.
C5_DeleteAfterWrites ==
  [][\A n \in Names :
       (wdb.pc = "write" /\ n \notin Range(wdb.names)
          /\ FileCount(fs'[n]) < FileCount(fs[n]))
         => (wdb.i > Len(wdb.names) /\ wr.pc = "done")]_vars

\* a record with the default of its field in place of every null column
\* whose field has a non-empty default
WithDefaults(record, fields) ==
  [i \in 1..Len(record) |->
     IF record[i] = NULL /\ Field_default(fields[i]) # <<>>
     THEN StrV(Field_default(fields[i]))
     ELSE record[i]]

\* C5, second part as stated: after write_database on the database's own
\* directory, every relation in names holds the same records in the same
\* order as before the call.
C5_SameRecords ==
  wdb.pc = "done" =>
    \A k \in 1..Len(wdb.names) :
      Relation_iter(fs[wdb.names[k]]) = wdb.before[wdb.names[k]]

\* C5, second part amended: after a write_database call that returns
\* without error, every relation in names holds the records it held before,
\* in the same order, with every null column of a field that has a
\* non-empty default replaced by that default.
C5_SameRecordsUpToDefaults ==
  wdb.pc = "done" =>
    \A k \in 1..Len(wdb.names) :
      /\ Relation_iter(fs[wdb.names[k]]).error = "none"
      /\ Relation_iter(fs[wdb.names[k]]).records =
           [j \in 1..Len(wdb.before[wdb.names[k]].records) |->
              WithDefaults(wdb.before[wdb.names[k]].records[j],
                           SchemaFields(DbSchema, wdb.names[k]))]

C6_AppendKeepsOldRecords ==
  (wr.pc = "done" /\ wr.append)
    => open(fs[wr.name]).lines = wr.old_read \o wr.tmp

\* C6: write(..., append=True, gzip=True) of one record has returned for a
\* relation that had a plain file with a line: the relation now reads as
\* the new line alone
C6_FailingInput ==
  /\ wr.pc = "done" /\ wr.append /\ wr.gzip_arg = "True"
  /\ wr.prior = "tx" /\ wr.old_read # <<>> /\ wr.tmp # <<>>
  /\ open(fs[wr.name]).lines = wr.tmp

\* C7: get_path gives the compressed path only if the compressed file
\* exists and the plain file does not exist or is strictly older; otherwise
\* it gives the plain path; when neither file exists it raises TSDBError.
C7_GetPath ==
  rd.path # "none" =>
    /\ rd.path = "gz" =>
         /\ fs[rd.name].gz.exists
         /\ \/ ~fs[rd.name].tx.exists
            \/ fs[rd.name].gz.mtime > fs[rd.name].tx.mtime
    /\ rd.path = "tx" =>
         /\ fs[rd.name].tx.exists
         /\ ~fs[rd.name].gz.exists
              \/ fs[rd.name].gz.mtime <= fs[rd.name].tx.mtime
    /\ rd.path = "TSDBError" <=>
         ~fs[rd.name].tx.exists /\ ~fs[rd.name].gz.exists

\* C7: both files exist with the same modification time and the reader was
\* given the plain path
C7_EqualTimesGivePlain ==
  /\ rd.path = "tx" /\ Both(fs[rd.name])
  /\ fs[rd.name].gz.mtime = fs[rd.name].tx.mtime

(***************************************************************************)
(* The escape round trip as a computation: px holds the call's position,   *)
(* its input, the escaped text and the unescaped result.                   *)
(***************************************************************************)
EscapeAlphabet == {BS, NL, FIELD_DELIMITER, "n", "s", "a"}

EscInit ==
  /\ FsIdle
  /\ \E t \in TextsUpTo(EscapeAlphabet, MaxText) :
       px = [op |-> "escape", pc |-> "start", in |-> t, mid |-> <<>>,
             out |-> <<>>]

EscEscape ==
  /\ px.op = "escape" /\ px.pc = "start"
  /\ px' = [px EXCEPT !.pc = "escaped", !.mid = escape(px.in)]
  /\ UNCHANGED fsvars

EscUnescape ==
  /\ px.op = "escape" /\ px.pc = "escaped"
  /\ px' = [px EXCEPT !.pc = "done", !.out = unescape(px.mid)]
  /\ UNCHANGED fsvars

EscNext == EscEscape \/ EscUnescape

SpecEscape == EscInit /\ [][EscNext]_vars

\* a backslash directly followed by the letter n or s
RECURSIVE HasBackslashLetter(_)
HasBackslashLetter(t) ==
  /\ Len(t) >= 2
  /\ \/ (t[1] = BS /\ t[2] \in {"n", "s"})
     \/ HasBackslashLetter(Tail(t))

\* C8: for every text t over backslash, newline, '@' and letters (n and s
\* included), unescape(escape(t)) = t.
C8_RoundTrip == px.op = "escape" /\ px.pc = "done" => px.out = px.in

\* C8, the part the code keeps: the round trip holds for every text that has
\* no backslash directly followed by the letter n or s.
C8_RoundTripNoBackslashLetter ==
  px.op = "escape" /\ px.pc = "done" /\ ~HasBackslashLetter(px.in)
    => px.out = px.in

\* C8: the text backslash, n went through both steps and came back as the
\* newline character
C8_FailingInput ==
  /\ px.op = "escape" /\ px.pc = "done"
  /\ px.in = <<BS, "n">>
  /\ px.mid = <<BS, BS, "n">>
  /\ px.out = <<NL>>

(***************************************************************************)
(* The schema round trip as a computation: a schema is serialized by       *)
(* _format_schema and the text is parsed by _parse_schema.                 *)
(***************************************************************************)
\* most tables of a schema, most fields of a table
MaxTables == 2
MaxFields == 2


\* table names: one of a single character among them
TableNames == {<<"a">>, <<"a", "b">>, <<"c", "d">>}

\* fields with and without flags, with and without a comment
FieldPool ==
  { [name |-> <<"i", "d">>, datatype |-> T_integer, flags |-> <<T_key>>,
     comment |-> <<"a", SPACE, "k", "e", "y">>],
    [name |-> <<"x">>, datatype |-> T_string, flags |-> <<>>,
     comment |-> NoText],
    [name |-> <<"y">>, datatype |-> T_integer, flags |-> <<T_key>>,
     comment |-> NoText] }

\* the sequences of pairwise distinct elements of S of length at most n
RECURSIVE DistinctSeqs(_, _)
DistinctSeqs(S, n) ==
  IF n = 0 THEN {<<>>}
  ELSE LET P == DistinctSeqs(S, n - 1)
       IN  P \cup UNION {{Append(q, e) :
                            e \in {x \in S : \A i \in 1..Len(q) : q[i] # x}} :
                         q \in {r \in P : Len(r) = n - 1}}

\* the schemas of at most nt tables of at most nf fields each: unique table
\* names, in every order
Schemas(nt, nf) ==
  UNION { {[i \in 1..Len(names) |-> [name |-> names[i], fields |-> fl[i]]] :
             fl \in [1..Len(names) -> DistinctSeqs(FieldPool, nf)]} :
          names \in DistinctSeqs(TableNames, nt) }

SchInit ==
  /\ FsIdle
  /\ \E sch \in Schemas(MaxTables, MaxFields) :
       px = [op |-> "schema", pc |-> "start", in |-> sch, mid |-> <<>>,
             out |-> [error |-> "none", schema |-> <<>>]]

SchFormat ==
  /\ px.op = "schema" /\ px.pc = "start"
  /\ px' = [px EXCEPT !.pc = "formatted", !.mid = _format_schema(px.in)]
  /\ UNCHANGED fsvars

SchParse ==
  /\ px.op = "schema" /\ px.pc = "formatted"
  /\ px' = [px EXCEPT !.pc = "done", !.out = _parse_schema(px.mid)]
  /\ UNCHANGED fsvars

SchNext == SchFormat \/ SchParse

SpecSchema == SchInit /\ [][SchNext]_vars

\* schema equality: the same table names in the same order, each with an
\* equal field sequence (Field.__eq__)
Schema_eq(a, b) ==
  /\ Len(a) = Len(b)
  /\ \A i \in 1..Len(a) :
       /\ a[i].name = b[i].name
       /\ Len(a[i].fields) = Len(b[i].fields)
       /\ \A j \in 1..Len(a[i].fields) :
            Field_eq(a[i].fields[j], b[i].fields[j])

\* C10: _parse_schema(_format_schema(schema)) = schema for every schema with
\* unique table names, table names of a single character included.
C10_SchemaRoundTrip ==
  px.op = "schema" /\ px.pc = "done"
    => px.out.error = "none" /\ Schema_eq(px.out.schema, px.in)

\* C10, the part the code keeps: the round trip holds when every table name
\* has at least two characters.
C10_RoundTripLongNames ==
  px.op = "schema" /\ px.pc = "done"
  /\ (\A i \in 1..Len(px.in) : Len(px.in[i].name) >= 2)
    => px.out.error = "none" /\ Schema_eq(px.out.schema, px.in)

\* C10: the schema of the one table a with the one field x :string was
\* serialized and its text was rejected by the parser
C10_FailingInput ==
  /\ px.op = "schema" /\ px.pc = "done"
  /\ px.in = <<[name |-> <<"a">>, fields |-> <<Field(<<"x">>, T_string)>>]>>
  /\ px.mid = <<"a", ":", NL, SPACE, SPACE, "x", SPACE>> \o T_string
  /\ px.out.error = "TSDBSchemaError"

(***************************************************************************)
(* The record round trip as a computation: a record is encoded with its    *)
(* fields and the line is decoded with the same fields.                    *)
(***************************************************************************)
\* most fields of a record
MaxRecordFields == 2

CodecFieldPool ==
  { Field(<<"i", "-", "i", "d">>, T_integer), Field(N_i_wf, T_integer),
    Field(<<"i", "-", "i", "n", "p", "u", "t">>, T_string),
    Field(<<"x">>, T_float), Field(<<"d">>, T_date) }

\* the values of a datatype: null and values of the datatype
ValuesOf(datatype) ==
  {NULL} \cup
  (CASE datatype = T_integer -> {IntV(1), IntV(-1), IntV(25)}
     [] datatype = T_string  ->
          {StrV(x) : x \in {<<>>, <<"a">>, <<FIELD_DELIMITER>>, <<NL>>,
                            <<BS>>, <<BS, "n">>, <<"a", BS, "s">>}}
     [] datatype = T_float   -> {FloatV(5), FloatV(-2), FloatV(0)}
     [] datatype = T_date    -> {DateV(1999, 9, 8, 0, 0, 0, 0),
                                 DateV(2002, 12, 1, 15, 31, 1, 0),
                                 DateV(2024, 2, 29, 0, 0, 5, 7)})

\* the sequences over S of length at most n
RECURSIVE SeqsUpTo(_, _)
SeqsUpTo(S, n) ==
  IF n = 0 THEN {<<>>}
  ELSE LET P == SeqsUpTo(S, n - 1)
       IN  P \cup {Append(q, e) : q \in {r \in P : Len(r) = n - 1}, e \in S}

\* the records whose length matches fields and whose values are null or of
\* the field's datatype
RecordsFor(fields) ==
  {r \in [1..Len(fields) -> UNION {ValuesOf(f.datatype) : f \in CodecFieldPool}] :
     \A i \in 1..Len(fields) : r[i] \in ValuesOf(fields[i].datatype)}

CodInit ==
  /\ FsIdle
  /\ \E fields \in SeqsUpTo(CodecFieldPool, MaxRecordFields) \ {<<>>} :
       \E record \in RecordsFor(fields) :
         px = [op |-> "codec", pc |-> "start",
               in |-> [record |-> record, fields |-> fields],
               mid |-> [error |-> "none", text |-> <<>>],
               out |-> [error |-> "none", record |-> <<>>]]

CodEncode ==
  /\ px.op = "codec" /\ px.pc = "start"
  /\ px' = [px EXCEPT !.pc = "encoded",
                      !.mid = encode(px.in.record, px.in.fields)]
  /\ UNCHANGED fsvars

CodDecode ==
  /\ px.op = "codec" /\ px.pc = "encoded" /\ px.mid.error = "none"
  /\ px' = [px EXCEPT !.pc = "done",
                      !.out = decode(px.mid.text, px.in.fields)]
  /\ UNCHANGED fsvars

CodNext == CodEncode \/ CodDecode

SpecCodec == CodInit /\ [][CodNext]_vars

\* C9: decode(encode(record, fields), fields) = record for every record whose
\* length matches fields and whose values are null or of the field's datatype.
C9_RecordRoundTrip ==
  /\ px.op = "codec" /\ px.pc = "encoded" => px.mid.error = "none"
  /\ px.op = "codec" /\ px.pc = "done" 
       => px.out.error = "none" /\ px.out.record = px.in.record

\* the values the code does bring back: a non-null integer, a float, a date
\* with no microseconds, a text that is not empty and has no backslash
\* directly followed by n or s, and null where the field's default is empty
ComesBack(f, v) ==
  CASE v.t = "null"  -> Field_default(f) = <<>>
    [] v.t = "int"   -> TRUE
    [] v.t = "float" -> TRUE
    [] v.t = "date"  -> v.v.us = 0
    [] v.t = "str"   -> v.v # <<>> /\ ~HasBackslashLetter(v.v)

\* C9, the part the code keeps: the round trip holds for a record of at
\* least one field all of whose values come back.
C9_RoundTripOfValuesThatComeBack ==
  /\ px.op = "codec" /\ px.pc = "done"
  /\ px.in.fields # <<>>
  /\ \A i \in 1..Len(px.in.fields) :
       ComesBack(px.in.fields[i], px.in.record[i])
  => px.out.error = "none" /\ px.out.record = px.in.record

\* C9: the record of the one text backslash, n in a :string field was encoded
\* and decoded, and came back as the newline character
C9_FailingInput ==
  /\ px.op = "codec" /\ px.pc = "done"
  /\ px.in.fields = <<Field(<<"i", "-", "i", "n", "p", "u", "t">>, T_string)>>
  /\ px.in.record = <<StrV(<<BS, "n">>)>>
  /\ px.mid.text = <<BS, BS, "n">>
  /\ px.out = [error |-> "none", record |-> <<StrV(<<NL>>)>>]

(***************************************************************************)
(* _parse_schema on schema texts that are not the output of                *)
(* _format_schema: the lines of the text are drawn from a pool of headers, *)
(* field lines, blank lines and malformed lines.                           *)
(***************************************************************************)
MaxLines == 3

SchemaLinePool ==
  { <<"a", "b", ":">>,
    <<"c", "d", ":">>,
    <<SPACE, SPACE, "x", SPACE, ":", "s", "t", "r", "i", "n", "g">>,
    <<"x">>,
    <<"x", SPACE, SPACE, "#", "c">>,
    <<>> }

TxtInit ==
  /\ FsIdle
  /\ \E ls \in SeqsUpTo(SchemaLinePool, MaxLines) :
       px = [op |-> "schematext", pc |-> "start", in |-> ls, mid |-> <<>>,
             out |-> [error |-> "none", schema |-> <<>>]]

\* the text of the schema file: its lines, each ended by a newline
TxtRead ==
  /\ px.op = "schematext" /\ px.pc = "start"
  /\ px' = [px EXCEPT !.pc = "read",
                      !.mid = Join(<<>>, [i \in 1..Len(px.in) |->
                                            px.in[i] \o <<NL>>])]
  /\ UNCHANGED fsvars

TxtParse ==
  /\ px.op = "schematext" /\ px.pc = "read"
  /\ px' = [px EXCEPT !.pc = "done", !.out = _parse_schema(px.mid)]
  /\ UNCHANGED fsvars

TxtNext == TxtRead \/ TxtParse

SpecSchemaText == TxtInit /\ [][TxtNext]_vars

\* a line that is a table header
IsHeaderLine(line) == table_m(strip(line))

\* a line that is a well-formed field line: a name followed by a datatype
IsFieldLine(line) ==
  /\ ~IsHeaderLine(line)
  /\ field_m(strip(line)).matched
  /\ field_m(strip(line)).flags # NoText
  /\ split(field_m(strip(line)).flags) # <<>>

\* line i of ls is one the schema syntax does not allow there
InvalidLineAt(ls, i) ==
  /\ strip(ls[i]) # <<>>
  /\ \/ IsHeaderLine(ls[i]) /\ \E j \in 1..(i - 1) : strip(ls[j]) = strip(ls[i])
     \/ ~IsHeaderLine(ls[i]) /\ ~IsFieldLine(ls[i])
     \/ IsFieldLine(ls[i]) /\ ~\E j \in 1..(i - 1) : IsHeaderLine(ls[j])

\* C11: _parse_schema raises TSDBSchemaError and returns no schema whenever
\* the text has a second header for a defined table, a non-blank line that is
\* neither a header nor a well-formed field line, or a field line before any
\* header.
C11_InvalidSchemaRejected ==
  px.op = "schematext" /\ px.pc = "done"
  /\ (\E i \in 1..Len(px.in) : InvalidLineAt(px.in, i))
    => px.out.error = "TSDBSchemaError" /\ px.out.schema = <<>>

\* C11: the text "ab:\nx\n", a header followed by a line with a name and no
\* datatype, was parsed and the error was not a TSDBSchemaError
C11_FailingInput ==
  /\ px.op = "schematext" /\ px.pc = "done"
  /\ px.in = << <<"a", "b", ":">>, <<"x">> >>
  /\ px.out.error = "AttributeError"

(***************************************************************************)
(* encode and decode called with a field sequence whose length need not    *)
(* be the number of columns; the field sequence may be empty.              *)
(***************************************************************************)
MaxColumns == 3

CountFieldPool ==
  { Field(<<"i", "-", "i", "d">>, T_integer),
    Field(<<"i", "-", "i", "n", "p", "u", "t">>, T_string) }

CountValues == {NULL, IntV(1), StrV(<<"a">>)}

\* the lines of one to n columns, each column empty or the text 1
RECURSIVE CountLines(_)
CountLines(n) ==
  IF n = 1 THEN {<<>>, <<"1">>}
  ELSE CountLines(n - 1)
         \cup {l \o <<FIELD_DELIMITER>> \o c :
                 l \in CountLines(n - 1), c \in {<<>>, <<"1">>}}

CntInit ==
  /\ FsIdle
  /\ \E fields \in SeqsUpTo(CountFieldPool, MaxRecordFields) :
       \/ \E record \in SeqsUpTo(CountValues, MaxColumns) :
            px = [op |-> "encode", pc |-> "start",
                  in |-> [record |-> record, line |-> <<>>, fields |-> fields],
                  mid |-> <<>>,
                  out |-> [error |-> "none", text |-> <<>>, record |-> <<>>]]
       \/ \E line \in CountLines(MaxColumns) :
            px = [op |-> "decode", pc |-> "start",
                  in |-> [record |-> <<>>, line |-> line, fields |-> fields],
                  mid |-> <<>>,
                  out |-> [error |-> "none", text |-> <<>>, record |-> <<>>]]

CntEncode ==
  /\ px.op = "encode" /\ px.pc = "start"
  /\ px' = [px EXCEPT !.pc = "done",
                      !.out = [error |-> encode(px.in.record, px.in.fields).error,
                               text |-> encode(px.in.record, px.in.fields).text,
                               record |-> <<>>]]
  /\ UNCHANGED fsvars

CntDecode ==
  /\ px.op = "decode" /\ px.pc = "start"
  /\ px' = [px EXCEPT !.pc = "done",
                      !.out = [error |-> decode(px.in.line, px.in.fields).error,
                               text |-> <<>>,
                               record |-> decode(px.in.line, px.in.fields).record]]
  /\ UNCHANGED fsvars

CntNext == CntEncode \/ CntDecode

SpecCount == CntInit /\ [][CntNext]_vars

\* the number of columns of the call: the values of the record, or the
\* delimited columns of the line
ColumnCount ==
  IF px.op = "encode" THEN Len(px.in.record)
  ELSE Cardinality({i \in 1..Len(px.in.line) :
                      px.in.line[i] = FIELD_DELIMITER}) + 1

\* C12: encode(record, fields) and decode(line, fields) raise TSDBError
\* whenever the number of columns differs from the number of fields, an empty
\* field sequence included.
C12_MismatchRaises ==
  px.op \in {"encode", "decode"} /\ px.pc = "done"
  /\ ColumnCount # Len(px.in.fields)
    => px.out.error = "TSDBError"

\* C12, the part the code keeps: with a non-empty field sequence a different
\* number of columns raises TSDBError, and a call that succeeds returns one
\* value per column
C12_MismatchRaisesNonEmpty ==
  px.op \in {"encode", "decode"} /\ px.pc = "done" /\ px.in.fields # <<>>
    => /\ ColumnCount # Len(px.in.fields) => px.out.error = "TSDBError"
       /\ px.op = "decode" /\ px.out.error = "none"
            => Len(px.out.record) = ColumnCount

\* C12: decode('1@1', []) returned the two columns and raised nothing
C12_FailingInput ==
  /\ px.op = "decode" /\ px.pc = "done"
  /\ px.in.line = <<"1", FIELD_DELIMITER, "1">> /\ px.in.fields = <<>>
  /\ px.out.error = "none" /\ Len(px.out.record) = 2

(***************************************************************************)
(* A write that fails while it serializes its records.                     *)
(***************************************************************************)

\* C19: when write fails while serializing the records, the plain and the
\* compressed file of the relation are exactly as the call found them:
\* neither is created, truncated, modified or deleted.
C19_FailedWriteLeavesFiles ==
  wr.error # "none" => fs[wr.name] = wr.before

\* C19: a write over a relation that has both files was given a record with
\* too few columns and has failed with TSDBError
C19_FailedOverBoth ==
  /\ wr.pc = "failed" /\ wr.error = "TSDBError" /\ wr.source = "records"
  /\ wr.records = << <<IntV(3)>> >>
  /\ wr.before.tx.exists /\ wr.before.gz.exists

(***************************************************************************)
(* Relation.select.  The relation is item of a database whose directory    *)
(* does not change; every call of select gives a generator, which runs     *)
(* when next is called on it.  A generator is its names, its position      *)
(* ("created" before the first next, "open" inside the loop over the       *)
(* file, "closed" after StopIteration, "raised" after an exception), the   *)
(* lines of the file it has opened, the number of lines it has read, and   *)
(* the records it has yielded; nexts counts the calls of next.             *)
(***************************************************************************)
MaxSelects == 2

N_i_id    == <<"i", "-", "i", "d">>
N_i_input == <<"i", "-", "i", "n", "p", "u", "t">>
N_nope    == <<"n", "o", "p", "e">>

SelectLinesTx == << <<"1", "@", "a">>, <<"2", "@">>, <<"3", "@", "c">> >>
SelectLinesGz == << <<"7", "@", "g">>, <<"8", "@", "h">> >>

SelectTables ==
  { [tx |-> FileOf(SelectLinesTx, 0, "plain"), gz |-> NoFile],
    [tx |-> NoFile, gz |-> FileOf(SelectLinesGz, 0, "gzip")],
    [tx |-> FileOf(SelectLinesTx, 0, "plain"),
     gz |-> FileOf(SelectLinesGz, 1, "gzip")],
    [tx |-> NoFile, gz |-> NoFile] }

SelectNames ==
  { <<>>, <<N_i_input>>, <<N_i_input, N_i_id>>, <<N_i_id, N_i_id>>,
    <<N_nope>>, <<N_i_id, N_nope>> }

\* make_field_index(fields)[name]: the last field of that name; 0 stands
\* for the KeyError of a name that no field has
column_index(fields, name) ==
  IF \E i \in 1..Len(fields) : fields[i].name = name
  THEN CHOOSE i \in 1..Len(fields) :
         /\ fields[i].name = name
         /\ \A j \in (i + 1)..Len(fields) : fields[j].name # name
  ELSE 0

\* the columns of the names, in the order of the schema
select_indices_sorted(names, fields) ==
  SelectSeq([i \in 1..Len(fields) |-> i],
            LAMBDA i : \E k \in 1..Len(names) :
                         column_index(fields, names[k]) = i)

\* indices.append(self.column_index(name)) for name in names
select_indices(names, fields) ==
  [k \in 1..Len(names) |-> column_index(fields, names[k])]

\* relation.select(*names): the generator, which has not run yet
Relation_select(names) ==
  [names |-> names, pc |-> "created", indices |-> <<>>, lines |-> <<>>,
   read |-> 0, yielded |-> <<>>, error |-> "none", nexts |-> 0]

gen_raise(g, error) == [g EXCEPT !.pc = "raised", !.error = error]

\* yield decode(line), or yield tuple(record[idx] for idx in indices)
gen_yield(g, record) ==
  IF g.names = <<>>
  THEN [g EXCEPT !.read = @ + 1, !.yielded = Append(@, record)]
  ELSE IF \E k \in 1..Len(g.indices) : g.indices[k] > Len(record)
  THEN gen_raise([g EXCEPT !.read = @ + 1], "IndexError")
  ELSE [g EXCEPT !.read = @ + 1,
                 !.yielded = Append(@, [k \in 1..Len(g.indices) |->
                                          record[g.indices[k]]])]

\* for line in f: the next line of the opened file, or the end of the loop
gen_line(g) ==
  IF g.read >= Len(g.lines) THEN [g EXCEPT !.pc = "closed"]
  ELSE gen_yield(g, decode(g.lines[g.read + 1] \o <<NL>>, <<>>).record)

\* iter(self): the file is opened
gen_open(g, f) ==
  IF f.path = "TSDBError" THEN gen_raise(g, "TSDBError")
  ELSE gen_line([g EXCEPT !.pc = "open", !.lines = f.lines])

\* the first next: the body of select runs up to its first yield
gen_indices(g, tbl, indices) ==
  IF \E k \in 1..Len(indices) : indices[k] = 0
  THEN gen_raise(g, "TSDBError")
  ELSE gen_open([g EXCEPT !.indices = indices], open(tbl))

gen_start(g, tbl, fields) ==
  gen_indices(g, tbl, select_indices(g.names, fields))

\* next(generator)
gen_next(g, tbl, fields) ==
  IF g.pc = "created" THEN gen_start([g EXCEPT !.nexts = @ + 1], tbl, fields)
  ELSE gen_line([g EXCEPT !.nexts = @ + 1])

SelInit ==
  /\ \E tbl \in SelectTables :
       fs = [n \in Names |-> IF n = N_item THEN tbl
                             ELSE [tx |-> NoFile, gz |-> NoFile]]
  /\ clock = 0 /\ wr = IdleWrite /\ wdb = IdleWdb /\ rd = NoRead
  /\ hist = [init_one |-> TRUE, calls |-> 0]
  /\ relations = _format_schema(DbSchema)
  /\ px = [op |-> "select", gens |-> <<>>]

SelCall ==
  \E names \in SelectNames :
    /\ px.op = "select" /\ Len(px.gens) < MaxSelects
    /\ px' = [px EXCEPT !.gens = Append(@, Relation_select(names))]
    /\ UNCHANGED fsvars

SelNext ==
  \E k \in 1..Len(px.gens) :
    /\ px.op = "select" /\ px.gens[k].pc \in {"created", "open"}
    /\ px' = [px EXCEPT !.gens[k] =
                gen_next(@, fs[N_item], SchemaFields(DbSchema, N_item))]
    /\ UNCHANGED fsvars

SelNextStep == SelCall \/ SelNext

SpecSelect == SelInit /\ [][SelNextStep]_vars

\* the records of the backing file of item, in file order: the columns of
\* every line of the file that get_path resolves to
FileRecords == Relation_iter(fs[N_item]).records

\* the position in the schema of item of a name that it has
SchemaPosition(name) ==
  CHOOSE i \in 1..2 : SchemaFields(DbSchema, N_item)[i].name = name

KnownNames(names) ==
  \A k \in 1..Len(names) : names[k] \in {N_i_id, N_i_input}

\* what select(*names) is to yield over the backing file
Selected(names) ==
  IF names = <<>> THEN FileRecords
  ELSE [r \in 1..Len(FileRecords) |->
          [k \in 1..Len(names) |-> FileRecords[r][SchemaPosition(names[k])]]]

\* C18: every generator of select, however far any other generator has been
\* consumed, has yielded the first records of the file, whole without names
\* and projected to the names in the order given with names, one for every
\* next, and all of them when it ends; with an unknown name it raises
\* TSDBError and yields nothing.
C18_Select ==
  px.op = "select" =>
    \A k \in 1..Len(px.gens) :
      /\ ~KnownNames(px.gens[k].names) /\ px.gens[k].nexts > 0
           => /\ px.gens[k].pc = "raised" /\ px.gens[k].error = "TSDBError"
              /\ px.gens[k].yielded = <<>>
      /\ KnownNames(px.gens[k].names) /\ Relation_iter(fs[N_item]).error = "none"
           => /\ px.gens[k].pc \in {"created", "open", "closed"}
              /\ px.gens[k].pc = "open"
                   => /\ Len(px.gens[k].yielded) = px.gens[k].nexts
                      /\ px.gens[k].yielded
                           = SubSeq(Selected(px.gens[k].names), 1,
                                    px.gens[k].nexts)
              /\ px.gens[k].pc = "closed"
                   => /\ px.gens[k].yielded = Selected(px.gens[k].names)
                      /\ px.gens[k].nexts = Len(FileRecords) + 1

\* C18: select('i-input', 'i-id') has yielded two records of the plain
\* file, and a later select() has ended after yielding all three
C18_TwoGenerators ==
  /\ px.op = "select" /\ Len(px.gens) = 2
  /\ fs[N_item].tx.exists /\ ~fs[N_item].gz.exists
  /\ px.gens[1].names = <<N_i_input, N_i_id>>
  /\ px.gens[1].yielded = << <<StrV(<<"a">>), StrV(<<"1">>)>>,
                             <<NULL, StrV(<<"2">>)>> >>
  /\ px.gens[2].names = <<>> /\ px.gens[2].pc = "closed"
  /\ Len(px.gens[2].yielded) = 3

(***************************************************************************)
(* The query language (tsql.py).  A query is a text; _lex gives its        *)
(* tokens, each the number of the group of _tsql_lex_re that matched and   *)
(* the text of that group.  The texts of the model are in lower case.      *)
(***************************************************************************)
QUOTE == "\""
APOS  == "'"

_keywords ==
  << <<"i", "n", "f", "o">>, <<"s", "e", "t">>,
     <<"r", "e", "t", "r", "i", "e", "v", "e">>,
     <<"s", "e", "l", "e", "c", "t">>, <<"i", "n", "s", "e", "r", "t">>,
     <<"f", "r", "o", "m">>, <<"w", "h", "e", "r", "e">>,
     <<"r", "e", "p", "o", "r", "t">>, <<"*">>, <<".">> >>

_operators ==
  << <<"=", "=">>, <<"=">>, <<"!", "=">>, <<"~">>, <<"!", "~">>,
     <<"<", "=">>, <<"<">>, <<">", "=">>, <<">">>, <<"&", "&">>, <<"&">>,
     <<"a", "n", "d">>, <<"|", "|">>, <<"|">>, <<"o", "r">>, <<"!">>,
     <<"n", "o", "t">> >>

Letters ==
  {"a", "b", "c", "d", "e", "f", "g", "h", "i", "j", "k", "l", "m", "n", "o",
   "p", "q", "r", "s", "t", "u", "v", "w", "x", "y", "z"}

\* an alternation of literals at the start of s: the length of the first
\* alternative that matches, 0 when none does
RECURSIVE alt_len(_, _)
alt_len(s, alts) ==
  IF alts = <<>> THEN 0
  ELSE IF StartsWith(s, Head(alts)) THEN Len(Head(alts))
  ELSE alt_len(s, Tail(alts))

\* "([^"\\]*(?:\\.[^"\\]*)*)" with quote q: the index of the closing quote,
\* 0 when there is none
RECURSIVE quoted_end(_, _, _)
quoted_end(s, q, i) ==
  IF i > Len(s) THEN 0
  ELSE IF s[i] = q THEN i
  ELSE IF s[i] = BS
  THEN (IF i + 1 <= Len(s) /\ s[i + 1] # NL THEN quoted_end(s, q, i + 2)
        ELSE 0)
  ELSE quoted_end(s, q, i + 1)

quoted_len(s, q) == IF Head(s) = q THEN quoted_end(s, q, 2) ELSE 0

\* [0-9]{2}:[0-9]{2} and the seconds (?::[0-9]{2}): the length at the start
\* of s, 0 when there is no match; seconds is "optional" or "required"
clock_len(s, seconds) ==
  IF ~time_ok(s) THEN 0
  ELSE IF Len(s) >= 8 /\ s[6] = ":" /\ LeadDigits(Drop(s, 6), 2) = 2 THEN 8
  ELSE IF seconds = "optional" THEN 5
  ELSE 0

\* t: \s*\([0-9]{2}:[0-9]{2}(?::[0-9]{2})?\) after ws whitespace characters
lex_t_len(s, ws, c) ==
  IF c > 0 /\ Len(s) >= ws + 1 + c + 1 /\ s[ws + 1 + c + 1] = ")"
  THEN ws + c + 2 ELSE 0

lex_t(s, ws) ==
  IF Len(s) > ws /\ s[ws + 1] = "("
  THEN lex_t_len(s, ws, clock_len(Drop(s, ws + 1), "optional"))
  ELSE 0

\* tt: \s+[0-9]{2}:[0-9]{2}(?::[0-9]{2})
lex_tt(s, ws) ==
  IF ws >= 1 /\ clock_len(Drop(s, ws), "required") > 0 THEN ws + 8 ELSE 0

\* (?:{t}|{tt})? at the start of s
lex_time_ws(s, ws) == IF lex_t(s, ws) > 0 THEN lex_t(s, ws) ELSE lex_tt(s, ws)

lex_time(s) == lex_time_ws(s, SpanLen(s, Whitespace, TRUE))

\* m: (?:[0-9]{1,2}|jan|feb|...|dec)
lex_m(s) ==
  IF LeadDigits(s, 2) > 0 THEN LeadDigits(s, 2) ELSE alt_len(s, _MONTHS)

\* (?:-{d})? and the time, after the month of group 6
lex_ymd_day(s) ==
  IF s # <<>> /\ Head(s) = "-" /\ LeadDigits(Tail(s), 2) > 0
  THEN 1 + LeadDigits(Tail(s), 2)
         + lex_time(Drop(s, 1 + LeadDigits(Tail(s), 2)))
  ELSE lex_time(s)

lex_ymd_month(s, m) == IF m = 0 THEN 0 ELSE 5 + m + lex_ymd_day(Drop(s, 5 + m))

\* group 6: {yyyy}-{m}(?:-{d})?(?:{t}|{tt})?
lex_ymd(s) ==
  IF LeadDigits(s, 4) = 4 /\ Len(s) >= 5 /\ s[5] = "-"
  THEN lex_ymd_month(s, lex_m(Drop(s, 5)))
  ELSE 0

\* yy: (?:[0-9]{2})?[0-9]{2}
lex_yy(s) ==
  IF LeadDigits(s, 4) = 4 THEN 4 ELSE IF LeadDigits(s, 2) = 2 THEN 2 ELSE 0

\* {m}-{yy}(?:{t}|{tt})? with a month of length m
lex_my_year(s, m, yy) ==
  IF yy = 0 THEN 0 ELSE m + 1 + yy + lex_time(Drop(s, m + 1 + yy))

lex_my_month(s, m) ==
  IF m > 0 /\ Len(s) > m /\ s[m + 1] = "-"
  THEN lex_my_year(s, m, lex_yy(Drop(s, m + 1)))
  ELSE 0

lex_my(s) == lex_my_month(s, lex_m(s))

\* group 7: (?:{d}-)?{m}-{yy}(?:{t}|{tt})?
lex_dmy_day(s, d) ==
  IF d > 0 /\ Len(s) > d /\ s[d + 1] = "-" /\ lex_my(Drop(s, d + 1)) > 0
  THEN d + 1 + lex_my(Drop(s, d + 1))
  ELSE lex_my(s)

lex_dmy(s) == lex_dmy_day(s, LeadDigits(s, 2))

\* group 9: [+-]?\d+
lex_int(s) ==
  IF Head(s) \in {"+", "-"}
  THEN (IF SpanLen(Tail(s), Range(DigitChars), TRUE) > 0
        THEN 1 + SpanLen(Tail(s), Range(DigitChars), TRUE) ELSE 0)
  ELSE SpanLen(s, Range(DigitChars), TRUE)

\* id: [a-zA-Z][-_a-zA-Z0-9]*
lex_id(s) ==
  IF s # <<>> /\ Head(s) \in Letters
  THEN 1 + SpanLen(Tail(s), WordChars \cup {"-"}, TRUE)
  ELSE 0

\* (?:{id}:)?{id}
lex_qid_at(s, n) ==
  IF n > 0 /\ Len(s) > n /\ s[n + 1] = ":" /\ lex_id(Drop(s, n + 1)) > 0
  THEN n + 1 + lex_id(Drop(s, n + 1))
  ELSE n

lex_qid(s) == lex_qid_at(s, lex_id(s))

\* group 10: (?:{id}:)?{id}(?:@(?:{id}:)?{id})*
RECURSIVE lex_ident_at(_, _)
lex_ident_at(s, n) ==
  IF n > 0 /\ Len(s) > n /\ s[n + 1] = "@" /\ lex_qid(Drop(s, n + 1)) > 0
  THEN n + 1 + lex_ident_at(Drop(s, n + 1), lex_qid(Drop(s, n + 1)))
  ELSE n

lex_ident(s) == lex_ident_at(s, lex_qid(s))

\* the length each group of _tsql_lex_re takes at the start of s, which is
\* not empty and does not start with whitespace; 0 for a group that does
\* not match there
lex_groups(s) ==
  << alt_len(s, _keywords), alt_len(s, _operators),
     IF Head(s) \in {"(", ")"} THEN 1 ELSE 0,
     quoted_len(s, QUOTE), quoted_len(s, APOS),
     lex_ymd(s), lex_dmy(s),
     alt_len(s, << <<":", "t", "o", "d", "a", "y">>, <<"n", "o", "w">> >>),
     lex_int(s), lex_ident(s), 1 >>

\* m.lastindex, m.group(gid) and the length of the match: the first group
\* of the alternation that matches
lex_group(s, lens, gid) ==
  [gid |-> gid, len |-> lens[gid],
   token |-> IF gid \in {4, 5} THEN SubSeq(s, 2, lens[gid] - 1)
             ELSE SubSeq(s, 1, lens[gid])]

lex_first(s, lens) ==
  lex_group(s, lens,
            CHOOSE g \in 1..11 : lens[g] > 0 /\ \A h \in 1..(g - 1) : lens[h] = 0)

lex_match(s) == lex_first(s, lex_groups(s))

\* finditer over one line: tokens is what was yielded so far
RECURSIVE lex_line(_, _)
lex_token(s, tokens, m) ==
  IF m.gid = 11 THEN [error |-> "TSQLSyntaxError", tokens |-> tokens]
  ELSE lex_line(Drop(s, m.len),
                Append(tokens, [gid |-> m.gid, token |-> m.token]))

lex_line(s, tokens) ==
  IF s = <<>> THEN [error |-> "none", tokens |-> tokens]
  ELSE IF Head(s) \in Whitespace THEN lex_line(Tail(s), tokens)
  ELSE lex_token(s, tokens, lex_match(s))

RECURSIVE lex_lines(_, _)
lex_lines(lines, r) ==
  IF lines = <<>> \/ r.error # "none" THEN r
  ELSE lex_lines(Tail(lines), lex_line(Head(lines), r.tokens))

\* _lex(s): the tokens of s with a terminator added, or the syntax error of
\* an unexpected character
_lex(s) ==
  lex_lines(splitlines(s \o <<".">>), [error |-> "none", tokens |-> <<>>])

(***************************************************************************)
(* The parser.  tokens is the sequence that _lex gave and i the index of   *)
(* the next token.  A parsing function gives the error it raised ("none"   *)
(* when it returned), the message and the text of the error, the index of  *)
(* the next token after it, and its value.  A condition is a node: a       *)
(* comparison (op, (col, val)), or ('and', conds), ('or', conds),          *)
(* ('not', cond) with the conditions in args; NoCond stands for None.      *)
(***************************************************************************)
K_star  == <<"*">>
K_dot   == <<".">>
K_from  == <<"f", "r", "o", "m">>
K_where == <<"w", "h", "e", "r", "e">>
K_select   == <<"s", "e", "l", "e", "c", "t">>
K_retrieve == <<"r", "e", "t", "r", "i", "e", "v", "e">>
OP_and == <<"a", "n", "d">>
OP_or  == <<"o", "r">>
OP_not == <<"n", "o", "t">>
OP_eq  == <<"=", "=">>

NoCond == [op |-> NoText, col |-> <<>>, val |-> NULL, args |-> <<>>]

Compare(op, col, val) == [op |-> op, col |-> col, val |-> val, args |-> <<>>]

Node(op, conds) == [op |-> op, col |-> <<>>, val |-> NULL, args |-> conds]

\* a date literal: parse_datetime(value)
DateLiteral(text) == [t |-> "datetime", v |-> text]

Returned(i, value) ==
  [error |-> "none", msg |-> "", text |-> <<>>, i |-> i, value |-> value]

Raised(error, msg, text) ==
  [error |-> error, msg |-> msg, text |-> text, i |-> 0, value |-> <<>>]

\* tokens.peek(): the next token, which stays; past the last token there is
\* none
peek(tokens, i) ==
  IF i <= Len(tokens) THEN tokens[i] ELSE [gid |-> 0, token |-> NoText]

\* the identifier tokens from index i on: while tokens.peek()[0] == 10
RECURSIVE identifiers(_, _)
identifiers(tokens, i) ==
  IF peek(tokens, i).gid = 10
  THEN <<tokens[i].token>> \o identifiers(tokens, i + 1)
  ELSE <<>>

\* one column of _prepare_columns: its parts between @, each with the table
\* of the last part that named one
RECURSIVE prepare_parts(_, _)
prepare_part(part, n, table, rest) ==
  IF n = Len(part)
  THEN <<table \o part>> \o prepare_parts(rest, table)
  ELSE <<SubSeq(part, 1, n + 1) \o SubSeq(part, n + 2, Len(part))>>
         \o prepare_parts(rest, SubSeq(part, 1, n + 1))

prepare_parts(parts, table) ==
  IF parts = <<>> THEN <<>>
  ELSE prepare_part(Head(parts), SpanLen(Head(parts), {":"}, FALSE), table,
                    Tail(parts))

RECURSIVE _prepare_columns(_)
_prepare_columns(cols) ==
  IF cols = <<>> THEN <<>>
  ELSE prepare_parts(SplitOn(Head(cols), "@"), <<>>)
         \o _prepare_columns(Tail(cols))

\* the projection is "*" (star) or a list of columns
_parse_select_projection(tokens, i) ==
  IF tokens[i].token = K_star
  THEN Returned(i + 1, [star |-> TRUE, cols |-> <<>>])
  ELSE IF tokens[i].gid = 10
  THEN Returned(i + Len(identifiers(tokens, i)),
                [star |-> FALSE,
                 cols |-> _prepare_columns(identifiers(tokens, i))])
  ELSE Raised("TSQLSyntaxError", "expected '*' or column identifiers",
              tokens[i].token)

_parse_select_from(tokens, i) ==
  IF peek(tokens, i).token = K_from
  THEN Returned(i + 1 + Len(identifiers(tokens, i + 1)),
                identifiers(tokens, i + 1))
  ELSE Returned(i, <<>>)

\* the literal of a comparison: parse_datetime for the date groups, int for
\* the integer group, the text of the token otherwise
literal(gid, value) ==
  IF gid \in {6, 7, 8} THEN DateLiteral(value)
  ELSE IF gid = 9 THEN int(value).value
  ELSE StrV(value)

\* a check of the ordering operators that lets quoted strings through
statement_value_strings(tokens, i, column, op) ==
  IF op \in {<<"~">>, <<"!", "~">>} /\ tokens[i].gid \notin {4, 5}
  THEN Raised("TSQLSyntaxError", "operator is only valid with strings", op)
  ELSE IF op \in {<<"<">>, <<"<", "=">>, <<">">>, <<">", "=">>}
          /\ tokens[i].gid \notin {4, 5, 6, 7, 8, 9}
  THEN Raised("TSQLSyntaxError",
              "operator is only valid with integers and dates", op)
  ELSE Returned(i + 1,
                Compare(op, column, literal(tokens[i].gid, tokens[i].token)))

statement_value(tokens, i, column, op) ==
  IF op \in {<<"~">>, <<"!", "~">>} /\ tokens[i].gid \notin {4, 5}
  THEN Raised("TSQLSyntaxError", "operator is only valid with strings", op)
  ELSE IF op \in {<<"<">>, <<"<", "=">>, <<">">>, <<">", "=">>}
          /\ tokens[i].gid \notin {6, 7, 8, 9}
  THEN Raised("TSQLSyntaxError",
              "operator is only valid with integers and dates", op)
  ELSE Returned(i + 1,
                Compare(op, column, literal(tokens[i].gid, tokens[i].token)))

_parse_condition_statement(tokens, i) ==
  IF tokens[i].gid # 10
  THEN Raised("TSQLSyntaxError", "expected a column name", tokens[i].token)
  ELSE IF tokens[i + 1].gid # 2
  THEN Raised("TSQLSyntaxError", "expected an operator", tokens[i + 1].token)
  ELSE statement_value(tokens, i + 2, tokens[i].token,
                       IF tokens[i + 1].token = <<"=">> THEN OP_eq
                       ELSE tokens[i + 1].token)

\* the value of a list of conditions: None, the one condition, or the node
conds_value(op, conds) ==
  IF conds = <<>> THEN NoCond
  ELSE IF Len(conds) = 1 THEN conds[1]
  ELSE Node(op, conds)

RECURSIVE _parse_condition_disjunction(_, _)
RECURSIVE _parse_condition_conjunction(_, _)
RECURSIVE conjunction_loop(_, _, _)

negation_cond(r) ==
  IF r.error # "none" THEN r ELSE Returned(r.i, Node(OP_not, <<r.value>>))

_parse_condition_negation(tokens, i) ==
  negation_cond(_parse_condition_disjunction(tokens, i + 1))

\* the closing parenthesis and tuple(cond)
group_cond(tokens, r) ==
  IF r.error # "none" THEN r
  ELSE IF ~(tokens[r.i].gid = 3 /\ tokens[r.i].token = <<")">>)
  THEN Raised("TSQLSyntaxError", "expected ')'", tokens[r.i].token)
  ELSE IF r.value = NoCond THEN Raised("TypeError", "tuple(None)", <<>>)
  ELSE Returned(r.i + 1, r.value)

_parse_condition_group(tokens, i) ==
  group_cond(tokens, _parse_condition_disjunction(tokens, i + 1))

\* conds.append(cond) and the test for a following 'and'
conjunction_cond(tokens, conds, r) ==
  IF r.error # "none" THEN r
  ELSE IF r.i > Len(tokens) THEN Raised("StopIteration", "", <<>>)
  ELSE IF tokens[r.i].token \in {<<"&">>, <<"&", "&">>, OP_and}
  THEN conjunction_loop(tokens, r.i + 1, Append(conds, r.value))
  ELSE Returned(r.i, conds_value(OP_and, Append(conds, r.value)))

conjunction_loop(tokens, i, conds) ==
  IF tokens[i].gid = 2 /\ tokens[i].token \in {<<"!">>, OP_not}
  THEN conjunction_cond(tokens, conds, _parse_condition_negation(tokens, i))
  ELSE IF tokens[i].gid = 3 /\ tokens[i].token = <<"(">>
  THEN conjunction_cond(tokens, conds, _parse_condition_group(tokens, i))
  ELSE IF tokens[i].gid = 3 /\ tokens[i].token = <<")">>
  THEN Returned(i, conds_value(OP_and, conds))
  ELSE IF tokens[i].gid = 10
  THEN conjunction_cond(tokens, conds, _parse_condition_statement(tokens, i))
  ELSE Raised("TSQLSyntaxError", "expected '!', 'not', '(', or a column name",
              tokens[i].token)

_parse_condition_conjunction(tokens, i) == conjunction_loop(tokens, i, <<>>)

RECURSIVE disjunction_loop(_, _, _)
disjunction_more(tokens, i, conds) ==
  IF tokens[i].token \in {<<"|">>, <<"|", "|">>, OP_or}
  THEN disjunction_loop(tokens, i + 1, conds)
  ELSE Returned(i, conds_value(OP_or, conds))

disjunction_cond(tokens, conds, r) ==
  IF r.error # "none" THEN r
  ELSE disjunction_more(tokens, r.i,
                        IF r.value = NoCond THEN conds
                        ELSE Append(conds, r.value))

disjunction_loop(tokens, i, conds) ==
  disjunction_cond(tokens, conds, _parse_condition_conjunction(tokens, i))

_parse_condition_disjunction(tokens, i) == disjunction_loop(tokens, i, <<>>)

_parse_select_where(tokens, i) ==
  IF peek(tokens, i).token = K_where
  THEN _parse_condition_disjunction(tokens, i + 1)
  ELSE Returned(i, NoCond)

\* a check that asks for both clauses
select_where_both(tokens, first, projection, tables, w) ==
  IF w.error # "none" THEN w
  ELSE IF projection.star /\ (tables = <<>> \/ w.value = NoCond)
  THEN Raised("TSQLSyntaxError",
              "'select *' requires a 'from' or 'where' statement", first)
  ELSE Returned(w.i, [querytype |-> "select", projection |-> projection,
                      tables |-> tables, where |-> w.value])

\* the select of _parse_select, from its three parts
select_where(tokens, first, projection, tables, w) ==
  IF w.error # "none" THEN w
  ELSE IF projection.star /\ tables = <<>> /\ w.value = NoCond
  THEN Raised("TSQLSyntaxError",
              "'select *' requires a 'from' or 'where' statement", first)
  ELSE Returned(w.i, [querytype |-> "select", projection |-> projection,
                      tables |-> tables, where |-> w.value])

select_from(tokens, first, projection, f) ==
  select_where(tokens, first, projection, f.value,
               _parse_select_where(tokens, f.i))

select_projection(tokens, first, p) ==
  IF p.error # "none" THEN p
  ELSE select_from(tokens, first, p.value, _parse_select_from(tokens, p.i))

_parse_select(tokens, i) ==
  select_projection(tokens, tokens[i].token,
                    _parse_select_projection(tokens, i))

\* the terminator of _parse_query
query_end(tokens, r) ==
  IF r.error # "none" THEN r
  ELSE IF r.i > Len(tokens) THEN Raised("StopIteration", "", <<>>)
  ELSE IF ~(tokens[r.i].gid = 2 /\ tokens[r.i].token = K_dot)
  THEN Raised("TSQLSyntaxError", "expected '.'", tokens[r.i].token)
  ELSE Returned(r.i + 1, r.value)

_parse_query(tokens) ==
  IF ~(tokens[1].gid = 1
       /\ tokens[1].token \in {_keywords[k] : k \in 1..5})
  THEN Raised("TSQLSyntaxError", "expected a query type", tokens[1].token)
  ELSE IF tokens[1].token \notin {K_retrieve, K_select}
  THEN Raised("TSQLSyntaxError", "queries are not supported",
              tokens[1].token)
  ELSE query_end(tokens, _parse_select(tokens, 2))

(***************************************************************************)
(* Queries are lexed and parsed.  A query of the model is a query type, a  *)
(* projection, a from clause, a where clause and an end, joined by single  *)
(* spaces; it is given to _parse_query (tsql.query) or, without its query  *)
(* type, to _parse_select (tsql.select).  A comparison of the model is a   *)
(* column, an operator and a literal, given to _parse_condition_statement. *)
(***************************************************************************)
QueryTypes == {K_select, K_retrieve, <<"i", "n", "f", "o">>}

Projections == {K_star, <<"i", "-", "i", "d">>, <<"i", "-", "i", "d", " ",
    "i", "-", "i", "n", "p", "u", "t">>}

\* clause is TRUE for a text that is a clause of the grammar
FromClauses ==
  { [text |-> <<>>, clause |-> FALSE],
    [text |-> <<"f", "r", "o", "m">>, clause |-> FALSE],
    [text |-> <<"f", "r", "o", "m", " ", "i", "t", "e", "m">>,
        clause |-> TRUE],
    [text |-> <<"f", "r", "o", "m", " ", "i", "t", "e", "m", " ", "p", "a",
        "r", "s", "e">>, clause |-> TRUE] }

WhereClauses ==
  { [text |-> <<>>, clause |-> FALSE],
    [text |-> <<"w", "h", "e", "r", "e">>, clause |-> FALSE],
    [text |-> <<"w", "h", "e", "r", "e", " ", ")">>, clause |-> FALSE],
    [text |-> <<"w", "h", "e", "r", "e", " ", "i", "-", "i", "d", " ", "~",
        " ", "1">>, clause |-> FALSE],
    [text |-> <<"w", "h", "e", "r", "e", " ", "i", "-", "i", "d", " ", "=",
        "=", " ", "1">>, clause |-> TRUE],
    [text |-> <<"w", "h", "e", "r", "e", " ", "i", "-", "i", "d", " ", "<",
        " ", "1", " ", "a", "n", "d", " ", "i", "-", "i", "d", " ", ">", " ",
        "0">>, clause |-> TRUE] }

QueryEnds == {<<>>, K_dot}

ComparisonOperators ==
  { <<"=">>, OP_eq, <<"!", "=">>, <<"~">>, <<"!", "~">>,
    <<"<">>, <<"<", "=">>, <<">">>, <<">", "=">> }

\* the literals of a comparison: the text, its kind, and the value it
\* stands for
Literals ==
  { [text |-> <<"1">>, kind |-> "integer", value |-> IntV(1)],
    [text |-> <<"-", "1", "2">>, kind |-> "integer", value |-> IntV(-12)],
    [text |-> <<"\"", "a", " ", "b", "\"">>, kind |-> "string",
        value |-> StrV(<<"a", " ", "b">>)],
    [text |-> <<"'", "c", "'">>, kind |-> "string", value |-> StrV(<<"c">>)],
    [text |-> <<"2", "0", "0", "1", "-", "1", "-", "3", "1">>,
        kind |-> "date", value |-> DateLiteral(<<"2", "0", "0", "1", "-",
        "1", "-", "3", "1">>)],
    [text |-> <<"3", "-", "f", "e", "b", "-", "9", "9", " ", "(", "1", "2",
        ":", "3", "0", ")">>, kind |-> "date", value |-> DateLiteral(<<"3",
        "-", "f", "e", "b", "-", "9", "9", " ", "(", "1", "2", ":", "3", "0",
        ")">>)],
    [text |-> <<"n", "o", "w">>, kind |-> "date",
        value |-> DateLiteral(<<"n", "o", "w">>)],
    [text |-> <<"y">>, kind |-> "identifier", value |-> StrV(<<"y">>)] }

\* the words that are not empty, joined by single spaces
RECURSIVE JoinWords(_)
JoinWords(words) ==
  IF words = <<>> THEN <<>>
  ELSE IF Head(words) = <<>> THEN JoinWords(Tail(words))
  ELSE IF JoinWords(Tail(words)) = <<>> THEN Head(words)
  ELSE Head(words) \o <<SPACE>> \o JoinWords(Tail(words))

QueryState(entry, in, text) ==
  [op |-> "tsql", entry |-> entry, pc |-> "start", in |-> in, text |-> text,
   lexed |-> [error |-> "none", tokens |-> <<>>],
   out |-> Returned(0, <<>>)]

QryInit ==
  /\ FsIdle
  /\ \/ \E qt \in QueryTypes \cup {<<>>}, p \in Projections,
           f \in FromClauses, w \in WhereClauses, e \in QueryEnds :
          px = QueryState(IF qt = <<>> THEN "select" ELSE "query",
                          [querytype |-> qt, projection |-> p, from |-> f,
                           where |-> w, end |-> e],
                          JoinWords(<<qt, p, f.text, w.text>>) \o e)
     \/ \E o \in ComparisonOperators, l \in Literals :
          px = QueryState("statement",
                          [column |-> <<"i", "-", "i", "d">>, operator |-> o,
                              literal |-> l],
                          JoinWords(<<<<"i", "-", "i", "d">>, o, l.text>>))

\* LookaheadIterator(_lex(query))
QryLex ==
  /\ px.op = "tsql" /\ px.pc = "start"
  /\ px' = [px EXCEPT !.pc = IF _lex(px.text).error = "none" THEN "lexed"
                               ELSE "done",
                      !.lexed = _lex(px.text)]
  /\ UNCHANGED fsvars

\* tsql.query: _parse_query(tokens)
QryParseQuery ==
  /\ px.op = "tsql" /\ px.pc = "lexed" /\ px.entry = "query"
  /\ px' = [px EXCEPT !.pc = "done", !.out = _parse_query(px.lexed.tokens)]
  /\ UNCHANGED fsvars

\* tsql.select: _parse_select(tokens)
QryParseSelect ==
  /\ px.op = "tsql" /\ px.pc = "lexed" /\ px.entry = "select"
  /\ px' = [px EXCEPT !.pc = "done",
                      !.out = _parse_select(px.lexed.tokens, 1)]
  /\ UNCHANGED fsvars

\* _parse_condition_statement(tokens) at a comparison
QryParseStatement ==
  /\ px.op = "tsql" /\ px.pc = "lexed" /\ px.entry = "statement"
  /\ px' = [px EXCEPT !.pc = "done",
                      !.out = _parse_condition_statement(px.lexed.tokens, 1)]
  /\ UNCHANGED fsvars

QryNext == QryLex \/ QryParseQuery \/ QryParseSelect \/ QryParseStatement

SpecQuery == QryInit /\ [][QryNext]_vars

\* the query has the form query_type select_body '.' of the grammar, with
\* query type select or retrieve
GrammarQuery ==
  /\ px.entry = "query" /\ px.in.querytype \in {K_select, K_retrieve}
  /\ px.in.end = K_dot
  /\ px.in.from.text = <<>> \/ px.in.from.clause
  /\ px.in.where.text = <<>> \/ px.in.where.clause
  /\ px.in.projection = K_star => px.in.from.clause \/ px.in.where.clause

\* the select AST of the select body of the query
SelectBodyAst ==
  _parse_select(
    _lex(JoinWords(<<px.in.projection, px.in.from.text,
                     px.in.where.text>>)).tokens, 1)

\* C13: a query of the form query_type select_body '.', with query type
\* select or retrieve, is lexed and parsed without error, and _parse_query
\* returns the select AST of its select body.
C13_QueryParses ==
  px.op = "tsql" /\ px.pc = "done" /\ GrammarQuery
    => /\ px.lexed.error = "none" /\ px.out.error = "none"
       /\ px.out.value = SelectBodyAst.value

\* C13: the query 'select * from item.' was parsed and _parse_query raised
\* TSQLSyntaxError at its terminator
C13_FailingInput ==
  /\ px.op = "tsql" /\ px.pc = "done" /\ px.entry = "query"
  /\ px.text = <<"s", "e", "l", "e", "c", "t", " ", "*", " ", "f", "r", "o",
      "m", " ", "i", "t", "e", "m", ".">>
  /\ px.out.error = "TSQLSyntaxError" /\ px.out.msg = "expected '.'"
  /\ px.out.text = K_dot

\* a select of the model whose projection is '*', parsed
StarSelect ==
  /\ px.op = "tsql" /\ px.entry \in {"select", "query"} /\ px.pc = "done"
  /\ px.in.projection = K_star
  /\ px.entry = "query" => px.in.querytype \in {K_select, K_retrieve}

RequiresFromOrWhere == "'select *' requires a 'from' or 'where' statement"

\* C15: a select with projection '*' and neither a from clause nor a where
\* clause is rejected with TSQLSyntaxError; with at least one of the two
\* clauses it is not rejected for the lack of them.
C15_BareStarRejected ==
  /\ StarSelect /\ ~px.in.from.clause /\ ~px.in.where.clause
       => px.out.error = "TSQLSyntaxError"
  /\ StarSelect /\ (px.in.from.clause \/ px.in.where.clause)
       => px.out.msg # RequiresFromOrWhere

\* C15: '*' alone was given to _parse_select and was rejected for the lack
\* of both clauses
C15_BareStar ==
  /\ px.op = "tsql" /\ px.pc = "done" /\ px.entry = "select"
  /\ px.text = K_star
  /\ px.out.error = "TSQLSyntaxError" /\ px.out.msg = RequiresFromOrWhere

\* C16: in a comparison, ~ and !~ with a literal that is not a quoted string,
\* and <, <=, > and >= with a literal that is not an integer or a date,
\* raise TSQLSyntaxError naming the operator; every other pairing gives the
\* node (operator, (column, literal)) with = as ==.
C16_Comparison ==
  px.op = "tsql" /\ px.entry = "statement" /\ px.pc = "done" =>
    IF \/ px.in.operator \in {<<"~">>, <<"!", "~">>}
          /\ px.in.literal.kind # "string"
       \/ px.in.operator \in {<<"<">>, <<"<", "=">>, <<">">>, <<">", "=">>}
          /\ px.in.literal.kind \notin {"integer", "date"}
    THEN px.out.error = "TSQLSyntaxError" /\ px.out.text = px.in.operator
    ELSE /\ px.out.error = "none"
         /\ px.out.value =
              Compare(IF px.in.operator = <<"=">> THEN OP_eq
                      ELSE px.in.operator,
                      px.in.column, px.in.literal.value)

\* C16: 'i-id < "a b"' was rejected naming the operator <
C16_OrderingWithString ==
  /\ px.op = "tsql" /\ px.entry = "statement" /\ px.pc = "done"
  /\ px.in.operator = <<"<">> /\ px.in.literal.kind = "string"
  /\ px.out.error = "TSQLSyntaxError" /\ px.out.text = <<"<">>

(***************************************************************************)
(* Query processing.  A table is its name (the names of the tables joined  *)
(* into it, with + between them), its fields, each a name and whether it   *)
(* is a key, and its rows, each one value per field.  ts is the test       *)
(* suite: ts.rels is its schema, the tables in schema order, and           *)
(* ts.tables the table of every name.  Tables, their joins and the lookup  *)
(* of a column in a row belong to delphin.itsdb.                           *)
(***************************************************************************)
NoTable == [name |-> NoText, fields |-> <<>>, rows |-> <<>>]

Table(name, fields, rows) == [name |-> name, fields |-> fields, rows |-> rows]

\* table.fields.keys(): the names of the key fields, in field order
RECURSIVE keys(_)
keys(fields) ==
  IF fields = <<>> THEN <<>>
  ELSE (IF Head(fields).key THEN <<Head(fields).name>> ELSE <<>>)
         \o keys(Tail(fields))

\* column in table.fields
has_field(fields, column) ==
  \E i \in 1..Len(fields) : fields[i].name = column

\* row[col]: the value of the row at the first field of that name
row_value(fields, row, column) ==
  row[CHOOSE i \in 1..Len(fields) :
        /\ fields[i].name = column
        /\ \A j \in 1..(i - 1) : fields[j].name # column]

\* ts[name]
ts_table(ts, name) == ts.tables[name]

\* rels.find(name): the tables that have a field of that name, in schema
\* order
RECURSIVE rels_find(_, _)
rels_find(rels, name) ==
  IF rels = <<>> THEN <<>>
  ELSE (IF has_field(Head(rels).fields, name) THEN <<Head(rels).name>>
        ELSE <<>>)
         \o rels_find(Tail(rels), name)

\* rels[table].keys()
rels_keys(rels, table) ==
  keys(rels[CHOOSE i \in 1..Len(rels) : rels[i].name = table].fields)

\* the keys that both tables have
shared_keys(fields1, fields2) ==
  SelectSeq(keys(fields1), LAMBDA k : k \in Range(keys(fields2)))

\* the fields of table2 that the join adds
added_fields(fields2, on) ==
  SelectSeq(fields2, LAMBDA f : f.name \notin Range(on))

added_values(fields2, row2, on) ==
  [k \in 1..Len(added_fields(fields2, on)) |->
     row_value(fields2, row2, added_fields(fields2, on)[k].name)]

\* the rows of table2 that agree with row1 on the keys of the join
matching(table1, row1, table2, on) ==
  SelectSeq(table2.rows,
            LAMBDA row2 : \A k \in 1..Len(on) :
                            row_value(table1.fields, row1, on[k])
                              = row_value(table2.fields, row2, on[k]))

\* the rows a row of table1 gives in the join
joined_rows(row1, table2, on, matches, how) ==
  IF matches = <<>>
  THEN (IF how = "left"
        THEN <<row1 \o [k \in 1..Len(added_fields(table2.fields, on)) |-> NULL]>>
        ELSE <<>>)
  ELSE [m \in 1..Len(matches) |->
          row1 \o added_values(table2.fields, matches[m], on)]

RECURSIVE join_rows(_, _, _, _, _)
join_rows(table1, rows1, table2, on, how) ==
  IF rows1 = <<>> THEN <<>>
  ELSE joined_rows(Head(rows1), table2, on,
                   matching(table1, Head(rows1), table2, on), how)
         \o join_rows(table1, Tail(rows1), table2, on, how)

join_on(table1, table2, on, how) ==
  IF on = <<>> THEN [error |-> "ItsdbError", table |-> NoTable]
  ELSE [error |-> "none",
        table |-> Table(table1.name \o <<"+">> \o table2.name,
                        table1.fields \o added_fields(table2.fields, on),
                        join_rows(table1, table1.rows, table2, on, how))]

\* itsdb.join(table1, table2, how=how)
join(table1, table2, how) ==
  join_on(table1, table2, shared_keys(table1.fields, table2.fields), how)

\* itsdb.select_rows(cols, table)
select_rows(cols, table) ==
  [r \in 1..Len(table.rows) |->
     [k \in 1..Len(cols) |-> row_value(table.fields, table.rows[r], cols[k])]]

(***************************************************************************)
(* _id_path: the search goes level by level; paths are the paths of the    *)
(* level, k the path that is looked at, newpaths the paths of the next     *)
(* level found so far and visited the tables seen.  A step is a table and  *)
(* a key.  The new tables of a step are taken in schema order.             *)
(***************************************************************************)
NoPath == [found |-> FALSE, path |-> <<>>]

\* newpaths.append(path + [step]) for the keys of a table with more than
\* one key
steps_of(path, table, ks) ==
  IF Len(ks) > 1
  THEN [j \in 1..Len(SelectSeq(ks, LAMBDA key :
                                 <<table, key>> \notin Range(path))) |->
          Append(path, <<table,
                         SelectSeq(ks, LAMBDA key :
                                     <<table, key>> \notin Range(path))[j]>>)]
  ELSE <<>>

RECURSIVE extend_path(_, _, _)
extend_path(path, tables, rels) ==
  IF tables = <<>> THEN <<>>
  ELSE steps_of(path, Head(tables), rels_keys(rels, Head(tables)))
         \o extend_path(path, Tail(tables), rels)

RECURSIVE id_level(_, _, _, _, _, _)
id_step(paths, k, newpaths, visited, tgtkeys, rels, tables) ==
  id_level(paths, k + 1, newpaths \o extend_path(paths[k], tables, rels),
           visited \cup Range(tables), tgtkeys, rels)

id_level(paths, k, newpaths, visited, tgtkeys, rels) ==
  IF k > Len(paths)
  THEN (IF newpaths # <<>>
        THEN id_level(newpaths, 1, <<>>, visited, tgtkeys, rels)
        ELSE NoPath)
  ELSE IF paths[k][Len(paths[k])][2] \in tgtkeys
  THEN [found |-> TRUE, path |-> paths[k]]
  ELSE id_step(paths, k, newpaths, visited, tgtkeys, rels,
               SelectSeq(rels_find(rels, paths[k][Len(paths[k])][2]),
                         LAMBDA t : t \notin visited))

_id_path(src, tgt, rels) ==
  id_level([i \in 1..Len(keys(src.fields)) |->
              << <<src.name, keys(src.fields)[i]>> >>],
           1, <<>>, Range(SplitOn(src.name, "+")),
           Range(keys(tgt.fields)), rels)

\* for intervening, _ in path[1:]: table = itsdb.join(table, ts[intervening])
RECURSIVE join_path(_, _, _, _)
join_path(r, steps, ts, how) ==
  IF r.error # "none" \/ steps = <<>> THEN r
  ELSE join_path(join(r.table, ts_table(ts, Head(steps)[1]), how),
                 Tail(steps), ts, how)

join_last(r, tab2, how) ==
  IF r.error # "none" THEN r ELSE join(r.table, tab2, how)

\* path[1:] of the result of _id_path, which is None when there is no path
join_found(tab1, tab2, ts, how, p) ==
  IF ~p.found THEN [error |-> "TypeError", table |-> NoTable]
  ELSE join_last(join_path([error |-> "none", table |-> tab1],
                           Tail(p.path), ts, how),
                 tab2, how)

_transitive_join(tab1, tab2, ts, how) ==
  IF tab1 = NoTable THEN [error |-> "none", table |-> tab2]
  ELSE join_found(tab1, tab2, ts, how, _id_path(tab1, tab2, ts.rels))

\* the loop of _select_from: r is the table so far
RECURSIVE from_loop(_, _, _, _)
from_loop(tables, r, joined, ts) ==
  IF r.error # "none" \/ tables = <<>> THEN r
  ELSE IF Head(tables) \in joined THEN from_loop(Tail(tables), r, joined, ts)
  ELSE from_loop(Tail(tables),
                 _transitive_join(r.table, ts_table(ts, Head(tables)), ts,
                                  "inner"),
                 joined \cup {Head(tables)}, ts)

_select_from(tables, table, ts) ==
  from_loop(tables, [error |-> "none", table |-> table],
            IF table = NoTable THEN {}
            ELSE Range(SplitOn(table.name, "+")),
            ts)

(***************************************************************************)
(* _process_condition: the function of a condition, applied to a row.  It  *)
(* gives "True" or "False" for the truth of what the function returns,     *)
(* and "TypeError" when the function raises it.                            *)
(***************************************************************************)
\* re.search(val, text) for a pattern without special characters
RECURSIVE re_search(_, _)
re_search(val, text) ==
  IF StartsWith(text, val) THEN TRUE
  ELSE IF text = <<>> THEN FALSE
  ELSE re_search(val, Tail(text))

TruthOf(b) == IF b THEN "True" ELSE "False"

\* row[col] < val and the like: an integer is ordered with an integer; the
\* rows of the model hold integers, strings and nulls, which are not
\* ordered with an integer or a date
ordered(a, val, less, equal) ==
  IF a.t = "int" /\ val.t = "int"
  THEN TruthOf((equal /\ a.v = val.v)
                 \/ (IF less THEN a.v < val.v ELSE a.v > val.v))
  ELSE "TypeError"

\* the functions of the comparison operators, applied to a = row[col]
compare(op, a, val) ==
  IF op = <<"~">>
  THEN (IF a.t = "str" /\ val.t = "str" THEN TruthOf(re_search(val.v, a.v))
        ELSE "TypeError")
  ELSE IF op = <<"!", "~">>
  THEN (IF a.t = "str" /\ val.t = "str" THEN TruthOf(~re_search(val.v, a.v))
        ELSE "TypeError")
  ELSE IF op = OP_eq THEN TruthOf(a.t = val.t /\ a = val)
  ELSE IF op = <<"!", "=">> THEN TruthOf(~(a.t = val.t /\ a = val))
  ELSE IF op = <<"<">> THEN ordered(a, val, TRUE, FALSE)
  ELSE IF op = <<"<", "=">> THEN ordered(a, val, TRUE, TRUE)
  ELSE IF op = <<">">> THEN ordered(a, val, FALSE, FALSE)
  ELSE IF op = <<">", "=">> THEN ordered(a, val, FALSE, TRUE)
  ELSE "UnboundLocalError"

RECURSIVE _process_condition(_, _, _)

\* lfunc(row) and rfunc(row): rfunc is called when lfunc(row) is true
and_func(l, condition, fields, row) ==
  IF l = "True" THEN _process_condition(condition.args[2], fields, row)
  ELSE l

\* lfunc(row) or rfunc(row): rfunc is called when lfunc(row) is false
or_func(l, condition, fields, row) ==
  IF l = "False" THEN _process_condition(condition.args[2], fields, row)
  ELSE l

not_func(n) ==
  IF n = "True" THEN "False" ELSE IF n = "False" THEN "True" ELSE n

\* func(row) for the func of _process_condition(condition)
_process_condition(condition, fields, row) ==
  IF condition.op = OP_and
  THEN and_func(_process_condition(condition.args[1], fields, row),
                condition, fields, row)
  ELSE IF condition.op = OP_or
  THEN or_func(_process_condition(condition.args[1], fields, row),
               condition, fields, row)
  ELSE IF condition.op = OP_not
  THEN not_func(_process_condition(condition.args[1], fields, row))
  ELSE compare(condition.op, row_value(fields, row, condition.col),
               condition.val)

\* _process_condition(condition) returns: every node it visits is a pair of
\* an operator and a body of the shape the operator takes
RECURSIVE well_shaped(_)
well_shaped(condition) ==
  IF condition = NoCond THEN FALSE
  ELSE IF condition.op \in {OP_and, OP_or}
  THEN /\ Len(condition.args) >= 2
       /\ well_shaped(condition.args[1]) /\ well_shaped(condition.args[2])
  ELSE IF condition.op = OP_not
  THEN Len(condition.args) = 1 /\ well_shaped(condition.args[1])
  ELSE /\ condition.args = <<>>
       /\ condition.op \in {<<"~">>, <<"!", "~">>, OP_eq, <<"!", "=">>, <<"<">>,
                            <<"<", "=">>, <<">">>, <<">", "=">>}

\* fields of _process_condition(condition): the columns of the conditions
\* it has built functions for
RECURSIVE condition_fields(_)
condition_fields(condition) ==
  IF condition.op \in {OP_and, OP_or}
  THEN condition_fields(condition.args[1])
         \o condition_fields(condition.args[2])
  ELSE IF condition.op = OP_not THEN condition_fields(condition.args[1])
  ELSE <<condition.col>>

\* str.rpartition(':'): the text before the last colon and the text after it
RECURSIVE rpartition_at(_, _)
rpartition_at(col, n) ==
  IF n = 0 THEN <<<<>>, col>>
  ELSE IF col[n] = ":"
  THEN <<SubSeq(col, 1, n - 1), SubSeq(col, n + 1, Len(col))>>
  ELSE rpartition_at(col, n - 1)

rpartition(col) == rpartition_at(col, Len(col))

join_missing(table, tab, column, ts, how) ==
  IF table = NoTable \/ ~has_field(table.fields, column)
  THEN _transitive_join(table, ts_table(ts, tab), ts, how)
  ELSE [error |-> "none", table |-> table]

\* _join_if_missing(table, col, ts, how)
_join_if_missing(table, col, ts, how) ==
  join_missing(table,
               IF rpartition(col)[1] # <<>> THEN rpartition(col)[1]
               ELSE rels_find(ts.rels, rpartition(col)[2])[1],
               rpartition(col)[2], ts, how)

RECURSIVE join_columns(_, _, _, _)
join_columns(r, cols, ts, how) ==
  IF r.error # "none" \/ cols = <<>> THEN r
  ELSE join_columns(_join_if_missing(r.table, Head(cols), ts, how),
                    Tail(cols), ts, how)

\* list(filter(func, table)): the rows on which func is true, or the
\* exception of func
filter_rows(condition, r, results) ==
  IF r.error # "none" THEN r
  ELSE IF \E i \in 1..Len(results) : results[i] \notin {"True", "False"}
  THEN [error |-> "TypeError", table |-> NoTable]
  ELSE [error |-> "none",
        table |-> Table(r.table.name, r.table.fields,
                        SelectSeq(r.table.rows,
                                  LAMBDA row :
                                    _process_condition(condition,
                                                       r.table.fields, row)
                                      = "True"))]

where_joined(condition, r) ==
  IF r.error # "none" THEN r
  ELSE filter_rows(condition, r,
                   [i \in 1..Len(r.table.rows) |->
                      _process_condition(condition, r.table.fields,
                                         r.table.rows[i])])

\* an exception of _process_condition itself is given as "Exception"
_select_where(condition, table, ts) ==
  IF condition = NoCond THEN [error |-> "none", table |-> table]
  ELSE IF ~well_shaped(condition)
  THEN [error |-> "Exception", table |-> NoTable]
  ELSE where_joined(condition,
                    join_columns([error |-> "none", table |-> table],
                                 condition_fields(condition), ts, "left"))

_select_projection(projection, table, ts) ==
  IF projection.star THEN [error |-> "none", table |-> table]
  ELSE join_columns([error |-> "none", table |-> table], projection.cols,
                    ts, "inner")

\* a projection that lists the fields from the last to the first
star_projection_reversed(table) ==
  [i \in 1..Len(table.fields) |->
     table.fields[Len(table.fields) + 1 - i].name]

\* projection = [f.name for f in table.fields]
star_projection(table) ==
  [i \in 1..Len(table.fields) |-> table.fields[i].name]

select_result(projection, r) ==
  IF r.error # "none" THEN [error |-> r.error, rows |-> <<>>]
  ELSE [error |-> "none",
        rows |-> select_rows(IF projection.star THEN star_projection(r.table)
                             ELSE projection.cols,
                             r.table)]

select_filtered(queryobj, r, ts) ==
  IF r.error # "none" THEN [error |-> r.error, rows |-> <<>>]
  ELSE select_result(queryobj.projection,
                     _select_projection(queryobj.projection, r.table, ts))

select_joined(queryobj, r, ts) ==
  IF r.error # "none" THEN [error |-> r.error, rows |-> <<>>]
  ELSE select_filtered(queryobj,
                       _select_where(queryobj.where, r.table, ts), ts)

\* select(query, ts) after its query is parsed
select_parsed(queryobj, ts) ==
  select_joined(queryobj, _select_from(queryobj.tables, NoTable, ts), ts)

\* select(query, ts)
select_lexed(l, ts) ==
  IF l.error # "none" THEN [error |-> l.error, rows |-> <<>>]
  ELSE IF _parse_select(l.tokens, 1).error # "none"
  THEN [error |-> _parse_select(l.tokens, 1).error, rows |-> <<>>]
  ELSE select_parsed(_parse_select(l.tokens, 1).value, ts)

select(query, ts) == select_lexed(_lex(query), ts)

(***************************************************************************)
(* Selects over a test suite of four tables: parse refers to item, result  *)
(* refers to parse, and fold shares no key with the others.                *)
(***************************************************************************)
TN_item   == <<"i", "t", "e", "m">>
TN_parse  == <<"p", "a", "r", "s", "e">>
TN_result == <<"r", "e", "s", "u", "l", "t">>
TN_fold   == <<"f", "o", "l", "d">>

F(name, key) == [name |-> name, key |-> key]

ItemFields   == <<F(<<"i", "-", "i", "d">>, TRUE), F(<<"i", "-", "i", "n",
    "p", "u", "t">>, FALSE)>>
ParseFields  == <<F(<<"p", "-", "i", "d">>, TRUE), F(<<"i", "-", "i", "d">>,
    TRUE)>>
ResultFields == <<F(<<"p", "-", "i", "d">>, TRUE), F(<<"m", "r", "s">>,
    FALSE)>>
FoldFields   == <<F(<<"f", "-", "i", "d">>, TRUE)>>

ExecRels ==
  << [name |-> TN_item, fields |-> ItemFields],
     [name |-> TN_parse, fields |-> ParseFields],
     [name |-> TN_result, fields |-> ResultFields],
     [name |-> TN_fold, fields |-> FoldFields] >>

\* the rows of item as its file has them: none, rows in an order that is
\* not the order of their keys, and rows that repeat a value
ItemRows ==
  { <<>>,
    << <<IntV(2), StrV(<<"b">>)>>, <<IntV(1), StrV(<<"a">>)>>, <<IntV(3),
        NULL>> >>,
    << <<IntV(1), StrV(<<"a">>)>>, <<IntV(2), StrV(<<"a">>)>> >> }

ParseRows ==
  { <<>>,
    << <<IntV(10), IntV(1)>>, <<IntV(11), IntV(1)>>, <<IntV(12),
        IntV(3)>> >> }

ResultRows == << <<IntV(10), StrV(<<"m">>)>>, <<IntV(12), StrV(<<"n">>)>> >>
FoldRows   == << <<IntV(7)>> >>

TestSuite(item, parse) ==
  [rels |-> ExecRels,
   tables |-> [n \in {TN_item, TN_parse, TN_result, TN_fold} |->
                 IF n = TN_item THEN Table(n, ItemFields, item)
                 ELSE IF n = TN_parse THEN Table(n, ParseFields, parse)
                 ELSE IF n = TN_result THEN Table(n, ResultFields, ResultRows)
                 ELSE Table(n, FoldFields, FoldRows)]]

ExecQueries ==
  { <<"*", " ", "f", "r", "o", "m", " ", "i", "t", "e", "m">>, <<"*", " ",
      "f", "r", "o", "m", " ", "p", "a", "r", "s", "e">>, <<"*", " ", "f",
      "r", "o", "m", " ", "i", "t", "e", "m", " ", "i", "t", "e", "m">>,
    <<"*", " ", "f", "r", "o", "m", " ", "i", "t", "e", "m", " ", "p", "a",
        "r", "s", "e">>, <<"*", " ", "f", "r", "o", "m", " ", "p", "a", "r",
        "s", "e", " ", "i", "t", "e", "m">>, <<"*", " ", "f", "r", "o", "m",
        " ", "i", "t", "e", "m", " ", "r", "e", "s", "u", "l", "t">>,
    <<"*", " ", "f", "r", "o", "m", " ", "i", "t", "e", "m", " ", "f", "o",
        "l", "d">>, <<"*", " ", "f", "r", "o", "m", " ", "f", "o", "l", "d",
        " ", "i", "t", "e", "m">>, <<"*", " ", "f", "r", "o", "m", " ", "i",
        "t", "e", "m", " ", "p", "a", "r", "s", "e", " ", "f", "o", "l",
        "d">>,
    <<"i", "-", "i", "n", "p", "u", "t", " ", "i", "-", "i", "d", " ", "f",
        "r", "o", "m", " ", "i", "t", "e", "m">>, <<"i", "-", "i", "n", "p",
        "u", "t">>, <<"p", "-", "i", "d", " ", "i", "-", "i", "n", "p", "u",
        "t">>,
    <<"*", " ", "w", "h", "e", "r", "e", " ", "i", "-", "i", "d", " ", "=",
        "=", " ", "1">>, <<"*", " ", "f", "r", "o", "m", " ", "i", "t", "e",
        "m", " ", "w", "h", "e", "r", "e", " ", "p", "-", "i", "d", " ", ">",
        "=", " ", "1", "1">>,
    <<"i", "-", "i", "d", " ", "w", "h", "e", "r", "e", " ", "i", "-", "i",
        "n", "p", "u", "t", " ", "~", " ", "\"", "a", "\"">>, <<"*">>, <<"*",
        " ", "f", "r", "o", "m", " ", "i", "t", "e", "m", " ", "w", "h", "e",
        "r", "e", " ", "f", "-", "i", "d", " ", "=", "=", " ", "7">>,
    <<"*", " ", "f", "r", "o", "m", " ", "i", "t", "e", "m", " ", "r", "e",
        "s", "u", "l", "t", " ", "p", "a", "r", "s", "e">>,
    <<"*", " ", "f", "r", "o", "m", " ", "i", "t", "e", "m", " ", "p", "a",
        "r", "s", "e", " ", "r", "e", "s", "u", "l", "t">>,
    <<"*", " ", "f", "r", "o", "m", " ", "p", "a", "r", "s", "e", " ", "i",
        "t", "e", "m", " ", "p", "a", "r", "s", "e">>,
    <<"*", " ", "f", "r", "o", "m", " ", "r", "e", "s", "u", "l", "t", " ",
        "p", "a", "r", "s", "e", " ", "i", "t", "e", "m">> }

ExInit ==
  /\ FsIdle
  /\ \E item \in ItemRows, parse \in ParseRows, query \in ExecQueries :
       px = [op |-> "select", pc |-> "start", query |-> query,
             ts |-> TestSuite(item, parse),
             from |-> [error |-> "none", table |-> NoTable],
             queryobj |-> Returned(0, <<>>),
             out |-> [error |-> "none", rows |-> <<>>]]

\* select: queryobj = _parse_select(LookaheadIterator(_lex(query)))
ExParse ==
  /\ px.op = "select" /\ px.pc = "start"
  /\ px' = [px EXCEPT !.pc = "parsed",
                      !.queryobj = _parse_select(_lex(px.query).tokens, 1)]
  /\ UNCHANGED fsvars

\* select: the joins, the filter and the projection
ExSelect ==
  /\ px.op = "select" /\ px.pc = "parsed"
  /\ px' = [px EXCEPT !.pc = "done", !.out = select(px.query, px.ts),
                      !.from = IF px.queryobj.error # "none" THEN @
                               ELSE _select_from(px.queryobj.value.tables,
                                                 NoTable, px.ts)]
  /\ UNCHANGED fsvars

ExNext == ExParse \/ ExSelect

SpecExec == ExInit /\ [][ExNext]_vars

\* C14: a select with projection '*', from-list [item] and no where clause
\* returns every row of item once, in file order, each with one value for
\* every field of item in the order of the schema.
C14_SelectStarFromItem ==
  px.op = "select" /\ px.pc = "done" /\ px.query = <<"*", " ", "f", "r", "o",
      "m", " ", "i", "t", "e", "m">>
    => /\ px.out.error = "none"
       /\ px.out.rows = px.ts.tables[TN_item].rows
       /\ \A r \in 1..Len(px.out.rows) :
            Len(px.out.rows[r]) = Len(ItemFields)

\* C14: '* from item' has returned the three rows of item, the row of key 2
\* first
C14_ThreeRows ==
  /\ px.op = "select" /\ px.pc = "done" /\ px.query = <<"*", " ", "f", "r",
      "o", "m", " ", "i", "t", "e", "m">>
  /\ Len(px.out.rows) = 3
  /\ px.out.rows[1] = <<IntV(2), StrV(<<"b">>)>>

\* the from-list of the query names two tables between which _id_path
\* finds no path
NoPathQuery ==
  /\ px.op = "select" /\ px.pc = "done" /\ px.queryobj.error = "none"
  /\ px.queryobj.value.tables \in {<<TN_item, TN_fold>>, <<TN_fold, TN_item>>}
  /\ ~_id_path(px.ts.tables[px.queryobj.value.tables[1]],
               px.ts.tables[px.queryobj.value.tables[2]], px.ts.rels).found

\* C20: when _id_path finds no path from the accumulated table to the
\* target, _transitive_join raises nothing at that point and joins no
\* intermediate table: the select ends as the direct join of the two tables
\* ends.
C20_NoPathDirectJoin ==
  NoPathQuery
    => px.out.error = join(px.ts.tables[px.queryobj.value.tables[1]],
                           px.ts.tables[px.queryobj.value.tables[2]],
                           "inner").error

\* C20: '* from item fold' has ended with the TypeError of path[1:]
C20_FailingInput ==
  /\ NoPathQuery /\ px.query = <<"*", " ", "f", "r", "o", "m", " ", "i", "t",
      "e", "m", " ", "f", "o", "l", "d">>
  /\ px.out.error = "TypeError"

(***************************************************************************)
(* Where clauses that chain comparisons with one connective, filtered over *)
(* a table that needs no join: its three integer fields take every         *)
(* combination of 0 and 1.                                                 *)
(***************************************************************************)
MaxConds == 3

TN_bits == <<"b", "i", "t", "s">>

BitsFields == <<F(<<"a">>, TRUE), F(<<"b">>, FALSE), F(<<"c">>, FALSE)>>

BitsRows ==
  << <<IntV(0), IntV(0), IntV(0)>>, <<IntV(0), IntV(0), IntV(1)>>,
     <<IntV(0), IntV(1), IntV(0)>>, <<IntV(0), IntV(1), IntV(1)>>,
     <<IntV(1), IntV(0), IntV(0)>>, <<IntV(1), IntV(0), IntV(1)>>,
     <<IntV(1), IntV(1), IntV(0)>>, <<IntV(1), IntV(1), IntV(1)>> >>

BitsTable == Table(TN_bits, BitsFields, BitsRows)

BitsSuite ==
  [rels |-> << [name |-> TN_bits, fields |-> BitsFields] >>,
   tables |-> [n \in {TN_bits} |-> BitsTable]]

\* a comparison of the chain: its text, and what it compares
Comparison(text, column, holds) ==
  [text |-> text, column |-> column, holds |-> holds]

ChainComparisons ==
  { Comparison(<<"a", " ", "=", "=", " ", "1">>, 1, {1}), Comparison(<<"b",
      " ", "=", "=", " ", "1">>, 2, {1}),
    Comparison(<<"c", " ", "=", "=", " ", "1">>, 3, {1}), Comparison(<<"c",
        " ", "<", " ", "1">>, 3, {0}) }

Connectives == {OP_and, OP_or}

ChainTexts(conds) == [i \in 1..Len(conds) |-> conds[i].text]

WhereText(how, conds) ==
  K_where \o <<" ">> \o Join(<<" ">> \o how \o <<" ">>, ChainTexts(conds))

WhInit ==
  /\ FsIdle
  /\ \E how \in Connectives, n \in 1..MaxConds :
       \E conds \in [1..n -> ChainComparisons] :
         px = [op |-> "where", pc |-> "start", how |-> how, conds |-> conds,
               text |-> WhereText(how, conds),
               lexed |-> [error |-> "none", tokens |-> <<>>],
               condition |-> Returned(0, NoCond),
               out |-> [error |-> "none", table |-> NoTable]]

WhLex ==
  /\ px.op = "where" /\ px.pc = "start"
  /\ px' = [px EXCEPT !.pc = "lexed", !.lexed = _lex(px.text)]
  /\ UNCHANGED fsvars

\* _parse_select: where = _parse_select_where(tokens)
WhParse ==
  /\ px.op = "where" /\ px.pc = "lexed" /\ px.lexed.error = "none"
  /\ px' = [px EXCEPT !.pc = "parsed",
                      !.condition = _parse_select_where(px.lexed.tokens, 1)]
  /\ UNCHANGED fsvars

\* select: table = _select_where(queryobj['where'], table, ts)
WhFilter ==
  /\ px.op = "where" /\ px.pc = "parsed" /\ px.condition.error = "none"
  /\ px' = [px EXCEPT !.pc = "done",
                      !.out = _select_where(px.condition.value, BitsTable,
                                            BitsSuite)]
  /\ UNCHANGED fsvars

WhNext == WhLex \/ WhParse \/ WhFilter

SpecWhere == WhInit /\ [][WhNext]_vars

\* the comparison holds on the row
Holds(cond, row) == row[cond.column].v \in cond.holds

\* the chain holds on the row under the usual boolean semantics
ChainHolds(how, conds, row) ==
  IF how = OP_and THEN \A i \in 1..Len(conds) : Holds(conds[i], row)
  ELSE \E i \in 1..Len(conds) : Holds(conds[i], row)

\* C17: the rows kept by _select_where are the rows of the table on which
\* the parsed condition is true: for a chain of n conditions joined by 'and'
\* (by 'or') a row is kept iff all n (at least one of the n) conditions hold
\* on it, for n >= 3 as for n = 2.
C17_ChainFilter ==
  px.op = "where" /\ px.pc = "done"
    => /\ px.out.error = "none"
       /\ px.out.table.rows =
            SelectSeq(BitsRows,
                      LAMBDA row : ChainHolds(px.how, px.conds, row))

\* C17: 'where a == 1 and b == 1 and c == 1' has kept the row (1, 1, 0)
C17_FailingInput ==
  /\ px.op = "where" /\ px.pc = "done"
  /\ px.text = <<"w", "h", "e", "r", "e", " ", "a", " ", "=", "=", " ", "1",
      " ", "a", "n", "d", " ", "b", " ", "=", "=", " ", "1", " ", "a", "n",
      "d", " ", "c", " ", "=", "=", " ", "1">>
  /\ px.out.error = "none"
  /\ px.out.table.rows = << <<IntV(1), IntV(1), IntV(0)>>,
                            <<IntV(1), IntV(1), IntV(1)>> >>

\* C17: the chains of two conditions are filtered as the claim says
C17_ChainsOfTwo ==
  px.op = "where" /\ px.pc = "done" /\ Len(px.conds) <= 2
    => /\ px.out.error = "none"
       /\ px.out.table.rows =
            SelectSeq(BitsRows,
                      LAMBDA row : ChainHolds(px.how, px.conds, row))

(***************************************************************************)
(* The format of the files that write leaves.                              *)
(***************************************************************************)
\* the file, if it exists, holds a gzip stream
HoldsCompressed(f) == f.exists => f.fmt = "gzip"

\* the file, if it exists, holds text as it is: lines, or nothing at all
HoldsUncompressed(f) == f.exists => f.fmt \in {"plain", "none"}

\* C24: after write calls of any gzip and append arguments, with and
\* without records, the file at the .gz path of the table, if it exists,
\* holds gzip-compressed content and the file at the plain path, if it
\* exists, holds uncompressed content, and open reads the content the call
\* left at its destination.
C24_FilesHoldTheirFormat ==
  wr.pc = "done" /\ wr.source = "records"
    => /\ HoldsCompressed(fs[wr.name].gz)
       /\ HoldsUncompressed(fs[wr.name].tx)
       /\ open(fs[wr.name]).path = wr.dest
       /\ open(fs[wr.name]).lines = wr.new

\* C24: write(dir, name, [], fields) has returned for a relation that had a
\* compressed file only: a file of zero bytes, which is no gzip stream, is
\* at the compressed path
C24_FailingInput ==
  /\ wr.pc = "done" /\ wr.source = "records" /\ wr.records = <<>>
  /\ ~wr.append /\ wr.gzip_arg = "None" /\ wr.prior = "gz"
  /\ fs[wr.name].gz.exists /\ fs[wr.name].gz.fmt = "none"
  /\ ~HoldsCompressed(fs[wr.name].gz)

\* C24: but for files of zero bytes at the compressed path, the files hold
\* their formats and open reads what the call left
C24_FormatUnlessEmpty ==
  wr.pc = "done" /\ wr.source = "records"
    => /\ fs[wr.name].gz.exists => fs[wr.name].gz.fmt \in {"gzip", "none"}
       /\ HoldsUncompressed(fs[wr.name].tx)
       /\ open(fs[wr.name]).path = wr.dest
       /\ open(fs[wr.name]).lines = wr.new

\* the tables that make up a joined table: table.name.split('+')
Constituents(table) == SplitOn(table.name, "+")

\* the number of times the table was joined into the joined table
TimesJoined(name, table) ==
  Cardinality({i \in 1..Len(Constituents(table)) :
                 Constituents(table)[i] = name})

\* the fold of _select_from over the from list has returned a table
FromFolded ==
  /\ px.op = "select" /\ px.pc = "done" /\ px.queryobj.error = "none"
  /\ px.from.error = "none" /\ px.from.table # NoTable

\* C23: while _select_from folds over the from list, a table that is a
\* constituent of the accumulated table, because the list named it earlier
\* or because a transitive join brought it in, is not joined again: every
\* table is joined into the accumulated table at most once.
C23_JoinedAtMostOnce ==
  FromFolded
    => \A i \in 1..Len(ExecRels) :
         TimesJoined(ExecRels[i].name, px.from.table) <= 1

\* C23: '* from item result parse' has joined parse twice, as the table
\* between item and result and as the table the list names
C23_FailingInput ==
  /\ FromFolded /\ px.query = <<"*", " ", "f", "r", "o", "m", " ", "i", "t",
      "e", "m", " ", "r", "e", "s", "u", "l", "t", " ", "p", "a", "r", "s",
      "e">>
  /\ Constituents(px.from.table) = <<TN_item, TN_parse, TN_result, TN_parse>>

\* C23: a table is joined twice only when the from list names it after a
\* transitive join has brought it in: every other from list, those that
\* name a table twice among them, joins each table at most once
C23_OnceUnlessBroughtIn ==
  FromFolded /\ px.queryobj.value.tables # <<TN_item, TN_result, TN_parse>>
    => \A i \in 1..Len(ExecRels) :
         TimesJoined(ExecRels[i].name, px.from.table) <= 1

(***************************************************************************)
(* _id_path step by step, over every schema of up to MaxRels tables whose  *)
(* fields are taken from three names.  The frame holds the locals of the   *)
(* call: paths, the index k of the path the for loop looks at, newpaths    *)
(* and visited.  The loop over set(rels.find(key)) - visited takes the     *)
(* tables in any order, as the iteration of a set does.  Every schema has  *)
(* one more table, whose only key no other table has.  The source is the   *)
(* first table of the schema or its join with the third, the target the    *)
(* first, the second or the table with the key of its own.                 *)
(***************************************************************************)
MaxRels == 3

RelNames == <<<<"a">>, <<"b">>, <<"c">>, <<"d">>, <<"e">>>>

FN_x == <<"x">>
FN_y == <<"y">>
FN_z == <<"z">>
FN_w == <<"w">>

\* the table that shares no field with the others
Apart == [name |-> <<"o">>, fields |-> <<F(FN_w, TRUE)>>]

\* the fields a table may have: no key, one key, two keys in every pairing,
\* three keys, and two with a field that has the name of a key and is no key
FieldLayouts ==
  { <<>>, <<F(FN_x, TRUE)>>,
    <<F(FN_x, TRUE), F(FN_y, TRUE)>>, <<F(FN_y, TRUE), F(FN_z, TRUE)>>,
    <<F(FN_z, TRUE), F(FN_x, TRUE)>>,
    <<F(FN_x, TRUE), F(FN_y, TRUE), F(FN_z, TRUE)>>,
    <<F(FN_x, FALSE), F(FN_y, TRUE), F(FN_z, TRUE)>>,
    <<F(FN_x, TRUE), F(FN_y, FALSE)>> }

RelsOf(layouts) ==
  [i \in 1..Len(layouts) |-> [name |-> RelNames[i], fields |-> layouts[i]]]
    \o <<Apart>>

TableOf(rel) == Table(rel.name, rel.fields, <<>>)

\* the sources of a schema: its first table and, when they join, the join
\* of its first table and its third
Sources(rels) ==
  {TableOf(rels[1])}
    \cup (IF Len(rels) >= 4
             /\ join(TableOf(rels[1]), TableOf(rels[3]),
                 "inner").error = "none"
          THEN {join(TableOf(rels[1]), TableOf(rels[3]), "inner").table}
          ELSE {})

\* paths that start at every field of the source
source_paths_of_fields(src) ==
  [i \in 1..Len(src.fields) |-> << <<src.name, src.fields[i].name>> >>]

\* paths = [[(src.name, key)] for key in src.fields.keys()]
source_paths(src) ==
  [i \in 1..Len(keys(src.fields)) |-> << <<src.name, keys(src.fields)[i]>> >>]

\* set(rels.find(laststep[1])) - visited
new_tables(rels, key, visited) == Range(rels_find(rels, key)) \ visited

\* the orders in which the iteration of a set may give its elements
Orders(S) == {o \in [1..Cardinality(S) -> S] : Range(o) = S}

\* an end of the for loop that goes on with the same paths when there are
\* no new ones
level_end_no_break(f) ==
  IF f.newpaths # <<>>
  THEN [f EXCEPT !.paths = f.newpaths, !.k = 1, !.newpaths = <<>>]
  ELSE [f EXCEPT !.k = 1]

\* if newpaths: paths = newpaths; else: break, and the function returns None
level_end(f) ==
  IF f.newpaths # <<>>
  THEN [f EXCEPT !.paths = f.newpaths, !.k = 1, !.newpaths = <<>>]
  ELSE [f EXCEPT !.pc = "returned", !.out = NoPath]

laststep(f) == f.paths[f.k][Len(f.paths[f.k])]

IdInit ==
  /\ FsIdle
  /\ \E n \in 2..MaxRels :
       \E layouts \in [1..n -> FieldLayouts] :
         \E src \in Sources(RelsOf(layouts)), t \in {1, 2, n + 1} :
           px = [op |-> "idpath", pc |-> "search", rels |-> RelsOf(layouts),
                 src |-> src, tgt |-> TableOf(RelsOf(layouts)[t]),
                 paths |-> source_paths(src), k |-> 1, newpaths |-> <<>>,
                 visited |-> Range(SplitOn(src.name, "+")),
                 out |-> NoPath]

\* if laststep[1] in tgtkeys: return path
IdReturn ==
  /\ px.op = "idpath" /\ px.pc = "search" /\ px.k <= Len(px.paths)
  /\ laststep(px)[2] \in Range(keys(px.tgt.fields))
  /\ px' = [px EXCEPT !.pc = "returned",
                      !.out = [found |-> TRUE, path |-> px.paths[px.k]]]
  /\ UNCHANGED fsvars

\* else: the loop over the tables that have the key and were not visited
IdExtend ==
  /\ px.op = "idpath" /\ px.pc = "search" /\ px.k <= Len(px.paths)
  /\ laststep(px)[2] \notin Range(keys(px.tgt.fields))
  /\ \E tables \in Orders(new_tables(px.rels, laststep(px)[2], px.visited)) :
       px' = [px EXCEPT !.k = @ + 1,
                        !.visited = @ \cup Range(tables),
                        !.newpaths = @ \o extend_path(px.paths[px.k], tables,
                                                      px.rels)]
  /\ UNCHANGED fsvars

\* the for loop over paths has ended
IdLevel ==
  /\ px.op = "idpath" /\ px.pc = "search" /\ px.k > Len(px.paths)
  /\ px' = level_end(px)
  /\ UNCHANGED fsvars

IdNext == IdReturn \/ IdExtend \/ IdLevel

SpecIdPath == IdInit /\ [][IdNext]_vars

\* the interpreter runs the call on: a step that is enabled is taken
SpecIdPathFair == SpecIdPath /\ WF_vars(IdNext)

IdReturned == px.op = "idpath" /\ px.pc = "returned"

\* C21: _id_path terminates for every schema, source and target, those
\* whose tables are joined in cycles by their keys and those with no path
\* among them.
C21_Terminates == <>IdReturned

\* C21: the search has ended without a path in a schema whose three tables
\* share their keys in a cycle, after it has visited all of them
C21_CycleWithoutPath ==
  /\ IdReturned /\ ~px.out.found
  /\ Len(px.rels) = 4
  /\ px.rels[1].fields = <<F(FN_x, TRUE), F(FN_y, TRUE)>>
  /\ px.rels[2].fields = <<F(FN_y, TRUE), F(FN_z, TRUE)>>
  /\ px.rels[3].fields = <<F(FN_z, TRUE), F(FN_x, TRUE)>>
  /\ px.src.name = <<"a">> /\ px.tgt.name = <<"o">>
  /\ px.visited = {<<"a">>, <<"b">>, <<"c">>}

\* the fields of a table of the schema
RelFields(rels, table) ==
  rels[CHOOSE i \in 1..Len(rels) : rels[i].name = table].fields

\* the path is a join path from src to tgt
ValidPath(path, src, tgt, rels) ==
  /\ Len(path) >= 1
  /\ path[1][1] = src.name
  /\ path[1][2] \in Range(keys(src.fields))
  /\ path[Len(path)][2] \in Range(keys(tgt.fields))
  /\ \A i \in 2..Len(path) :
       /\ \E j \in 1..Len(rels) : rels[j].name = path[i][1]
       /\ has_field(RelFields(rels, path[i][1]), path[i - 1][2])
       /\ path[i][1] \notin Range(SplitOn(src.name, "+"))
  /\ \A i, j \in 1..Len(path) : i # j => path[i][1] # path[j][1]

\* C22: a path that _id_path returns starts at a key of the source and ends
\* at a key of the target, each later step's table has the key of the step
\* before it, the tables of the steps differ from one another and none
\* after the first is part of the source; when the source and the target
\* share a key, the path has no table between them.
C22_ValidJoinPath ==
  IdReturned /\ px.out.found
    => /\ ValidPath(px.out.path, px.src, px.tgt, px.rels)
       /\ shared_keys(px.src.fields, px.tgt.fields) # <<>>
            => Len(px.out.path) = 1

\* C22: a path of two steps has been returned that goes from a through c,
\* the table between the source and the target b
C22_PathThroughTable ==
  /\ IdReturned /\ px.out.found
  /\ px.src.name = <<"a">> /\ px.tgt.name = <<"b">>
  /\ Len(px.out.path) = 2
  /\ px.out.path[2][1] = <<"c">>

====
